---------------------------- MODULE Spec2Model ----------------------------
(***************************************************************************)
(* MiniNewton: a 2D rigid-body simulator.  This module models              *)
(*   - the modular engine (physics.js, the joints module and the           *)
(*     orchestrator MiniNewton.* of src/unnamed/part_000 and part_001),    *)
(*   - the Enhanced engine (MiniNewton_Enhanced.jsx),                      *)
(*   - the panel of ui.js and the Final engine (MiniNewton_Final.jsx).     *)
(*                                                                         *)
(* Numbers.  The code computes with IEEE doubles.  The model computes with *)
(* fixed-point integers, rounding every product and quotient to the        *)
(* nearest unit:                                                           *)
(*   - lengths, velocities, accelerations, angles, masses: unit 1/S        *)
(*   - dimensionless coefficients and seconds of sleepTimer: unit 1/C      *)
(*   - inside a frame deltaTime = 1/frameRate is kept as the integer       *)
(*     frameRate, so x * deltaTime is x divided by frameRate.              *)
(***************************************************************************)
EXTENDS Integers, Sequences, FiniteSets, TLC

S == 100
C == 10000

---------------------------------------------------------------------------
(* Fixed-point arithmetic standing for the double arithmetic of the code. *)

Abs(x) == IF x < 0 THEN -x ELSE x

Sign(x) == IF x > 0 THEN 1 ELSE IF x < 0 THEN -1 ELSE 0

Min(a, b) == IF a < b THEN a ELSE b

Max(a, b) == IF a > b THEN a ELSE b

\* n / d rounded to the nearest integer, halves away from zero (d > 0)
RoundDiv(n, d) ==
    IF n >= 0 THEN (2 * n + d) \div (2 * d)
              ELSE -((2 * (-n) + d) \div (2 * d))

\* a * b / c rounded to nearest, computed without leaving 32 bits (c > 0)
MulDiv(a, b, c) ==
    LET s  == Sign(a) * Sign(b)
        aa == Abs(a)
        bb == Abs(b)
    IN  s * ((aa \div c) * bb + RoundDiv((aa % c) * bb, c))

\* F applied to the value of v; v is evaluated once
With(v, F(_)) == CHOOSE r \in { F(w) : w \in {v} } : TRUE

RECURSIVE SqrtSearch(_, _, _)
SqrtSearch(n, lo, hi) ==
    IF hi - lo <= 1 THEN lo
    ELSE With((lo + hi) \div 2,
              LAMBDA mid : IF mid * mid <= n THEN SqrtSearch(n, mid, hi)
                                             ELSE SqrtSearch(n, lo, mid))

\* floor of the square root of n >= 0 (n < 2^31, so the root is < 46341)
ISqrt(n) == SqrtSearch(n, 0, 46341)

\* Math.sqrt(dx*dx + dy*dy) on lengths in units of 1/S
Hypot(dx, dy) ==
    With(dx * dx + dy * dy,
         LAMBDA n : With(ISqrt(n), LAMBDA r : IF n - r * r > r THEN r + 1 ELSE r))

\* Math.sqrt(vx*vx + vy*vy) < thr, decided without forming large squares
SpeedBelow(vx, vy, thr) ==
    /\ Abs(vx) < thr
    /\ Abs(vy) < thr
    /\ vx * vx + vy * vy < thr * thr

Range(f) == {f[x] : x \in DOMAIN f}


---------------------------------------------------------------------------
(* Modular engine: physics.js                                              *)

\* Physics.materials: restitution and friction in 1/C, density in 1/S
materials(name) ==
    CASE name = "rubber"   -> [restitution |-> 9000, friction |-> 7000, density |-> 90]
      [] name = "metal"    -> [restitution |-> 3000, friction |-> 1000, density |-> 780]
      [] name = "wood"     -> [restitution |-> 5000, friction |-> 8000, density |-> 60]
      [] name = "ice"      -> [restitution |-> 1000, friction |-> 200,  density |-> 92]
      [] name = "concrete" -> [restitution |-> 2000, friction |-> 9000, density |-> 240]
      [] OTHER             -> [restitution |-> 8000, friction |-> 3000, density |-> 100]

\* settings.material; a settings object without the key reads undefined,
\* which is no key of the table
materialName(st) == IF "material" \in DOMAIN st THEN st.material ELSE "undefined"

\* a faulty createBody: restitution and friction always come from the
\* preset
createBody_presetOnly(layer, st) ==
    LET width  == layer.width * layer.scale[1]
        height == layer.height * layer.scale[2]
        area   == MulDiv(width, height, S)
        mass   == Max(RoundDiv(area, 10000), 10)
        props  == materials(materialName(st))
    IN  [ layer        |-> layer.name,
          px           |-> layer.position[1],
          py           |-> layer.position[2],
          vx           |-> 0,
          vy           |-> 0,
          ax           |-> 0,
          ay           |-> 0,
          rotation     |-> layer.rotation,
          angularVelocity |-> 0,
          mass         |-> MulDiv(mass, props.density, S),
          width        |-> width,
          height       |-> height,
          restitution  |-> props.restitution,
          friction     |-> props.friction,
          density      |-> props.density,
          isGrounded   |-> FALSE,
          isSleeping   |-> FALSE,
          sleepTimer   |-> 0 ]

\* Physics.createBody for a layer whose transform can be read.
\* layer.width, layer.height are whole pixels, scale is in percent, so
\* width * scale / 100 in units of 1/S is width * scale.  A settings
\* object without the key bounce (friction) has settings.bounce undefined.
createBody(layer, st) ==
    LET width  == layer.width * layer.scale[1]
        height == layer.height * layer.scale[2]
        area   == MulDiv(width, height, S)
        mass   == Max(RoundDiv(area, 10000), 10)
        props  == materials(materialName(st))
    IN  [ layer        |-> layer.name,
          px           |-> layer.position[1],
          py           |-> layer.position[2],
          vx           |-> 0,
          vy           |-> 0,
          ax           |-> 0,
          ay           |-> 0,
          rotation     |-> layer.rotation,
          angularVelocity |-> 0,
          mass         |-> MulDiv(mass, props.density, S),
          width        |-> width,
          height       |-> height,
          restitution  |-> IF "bounce" \in DOMAIN st THEN st.bounce
                                                        ELSE props.restitution,
          friction     |-> IF "friction" \in DOMAIN st THEN st.friction
                                                          ELSE props.friction,
          density      |-> props.density,
          isGrounded   |-> FALSE,
          isSleeping   |-> FALSE,
          sleepTimer   |-> 0 ]

\* Physics.applyGravity with a gravity vector; fr is the frame rate
applyGravity(body, gravityVector, fr) ==
    IF ~body.isGrounded
    THEN [body EXCEPT !.ax = @ + RoundDiv(gravityVector[1], fr),
                      !.ay = @ + RoundDiv(gravityVector[2], fr)]
    ELSE body

\* Physics.applyDamping
applyDamping(body, damping) ==
    [body EXCEPT !.vx = MulDiv(@, damping, C),
                 !.vy = MulDiv(@, damping, C),
                 !.angularVelocity = MulDiv(@, damping, C)]

\* Physics.updatePosition
updatePosition(body, fr) ==
    LET vx == body.vx + RoundDiv(body.ax, fr)
        vy == body.vy + RoundDiv(body.ay, fr)
    IN  [body EXCEPT !.vx = vx,
                     !.vy = vy,
                     !.px = @ + RoundDiv(vx, fr),
                     !.py = @ + RoundDiv(vy, fr),
                     !.rotation = @ + RoundDiv(body.angularVelocity, fr),
                     !.ax = 0,
                     !.ay = 0]

\* Physics.checkFloorCollision; rnd is Math.random() - 0.5 in units of 1/S
checkFloorCollision(body, floorY, bounce, rnd) ==
    LET bodyBottom == body.py + RoundDiv(body.height, 2)
    IN  IF bodyBottom >= floorY
        THEN LET b1 == [body EXCEPT !.py = floorY - RoundDiv(body.height, 2)]
                 vy == -MulDiv(b1.vy, bounce, C)
                 impactStrength == Abs(vy)
                 av == b1.angularVelocity
                         + RoundDiv(MulDiv(rnd, impactStrength, S), 10)
                 b2 == IF b1.vy > 0
                       THEN IF Abs(vy) < 10 * S
                            THEN [b1 EXCEPT !.vy = 0,
                                            !.angularVelocity = av,
                                            !.isGrounded = TRUE]
                            ELSE [b1 EXCEPT !.vy = vy,
                                            !.angularVelocity = av,
                                            !.isGrounded = FALSE]
                       ELSE b1
             IN  IF b2.isGrounded
                 THEN [b2 EXCEPT !.vx = MulDiv(@, 9000, C),
                                 !.angularVelocity = MulDiv(@, 9500, C)]
                 ELSE b2
        ELSE [body EXCEPT !.isGrounded = FALSE]

\* TRUE when checkFloorCollision reads Math.random()
floorUsesRandom(body, floorY) ==
    /\ body.py + RoundDiv(body.height, 2) >= floorY
    /\ body.vy > 0

\* Physics.applyMaterialFriction
applyMaterialFriction(body, fr) ==
    IF body.isGrounded \/ body.isSleeping
    THEN LET normalForce   == body.mass * 980
             frictionForce == MulDiv(normalForce, body.friction, C)
             dir           == IF body.vx > 0 THEN -1 ELSE 1
             vx            == body.vx
                                + dir * RoundDiv(RoundDiv(frictionForce, fr) * S, body.mass)
         IN  IF Abs(body.vx) * 10 > S
             THEN [body EXCEPT !.vx = IF Abs(vx) < S THEN 0 ELSE vx]
             ELSE body
    ELSE body

\* a faulty updateSleepState: the body is put to sleep with its velocity
updateSleepState_keepsVelocity(body, deltaTime) ==
    IF /\ SpeedBelow(body.vx, body.vy, 5 * S)
       /\ Abs(body.angularVelocity) * 10 < S
    THEN LET t == body.sleepTimer + deltaTime
         IN  IF t > C
             THEN [body EXCEPT !.sleepTimer = t, !.isSleeping = TRUE]
             ELSE [body EXCEPT !.sleepTimer = t]
    ELSE [body EXCEPT !.sleepTimer = 0, !.isSleeping = FALSE]

\* Physics.updateSleepState; sleepTimer and deltaTime in units of 1/C second
updateSleepState(body, deltaTime) ==
    IF /\ SpeedBelow(body.vx, body.vy, 5 * S)
       /\ Abs(body.angularVelocity) * 10 < S
    THEN LET t == body.sleepTimer + deltaTime
         IN  IF t > C
             THEN [body EXCEPT !.sleepTimer = t,
                               !.isSleeping = TRUE,
                               !.vx = 0,
                               !.vy = 0,
                               !.angularVelocity = 0]
             ELSE [body EXCEPT !.sleepTimer = t]
    ELSE [body EXCEPT !.sleepTimer = 0, !.isSleeping = FALSE]

\* a faulty wakeBody: the timer is kept
wakeBody_flagOnly(body) == [body EXCEPT !.isSleeping = FALSE]

\* Physics.wakeBody
wakeBody(body) == [body EXCEPT !.isSleeping = FALSE, !.sleepTimer = 0]

\* Physics.checkBodyCollision (AABB overlap)
checkBodyCollision(bodyA, bodyB) ==
    LET aLeft   == bodyA.px - RoundDiv(bodyA.width, 2)
        aRight  == bodyA.px + RoundDiv(bodyA.width, 2)
        aTop    == bodyA.py - RoundDiv(bodyA.height, 2)
        aBottom == bodyA.py + RoundDiv(bodyA.height, 2)
        bLeft   == bodyB.px - RoundDiv(bodyB.width, 2)
        bRight  == bodyB.px + RoundDiv(bodyB.width, 2)
        bTop    == bodyB.py - RoundDiv(bodyB.height, 2)
        bBottom == bodyB.py + RoundDiv(bodyB.height, 2)
    IN  ~(aLeft > bRight \/ aRight < bLeft \/ aTop > bBottom \/ aBottom < bTop)

\* the normalised collision normal of Physics.resolveCollision, in 1/C
collisionNormal(bodyA, bodyB) ==
    LET nx     == bodyB.px - bodyA.px
        ny     == bodyB.py - bodyA.py
        length == Hypot(nx, ny)
    IN  IF length > 0
        THEN <<RoundDiv(nx * C, length), RoundDiv(ny * C, length)>>
        ELSE <<nx, ny>>

\* relative velocity of B with respect to A along the collision normal
velAlongNormal(bodyA, bodyB) ==
    LET n == collisionNormal(bodyA, bodyB)
    IN  MulDiv(bodyB.vx - bodyA.vx, n[1], C) + MulDiv(bodyB.vy - bodyA.vy, n[2], C)

\* a faulty resolveCollision: the impulse is applied to bodyB only
resolveCollision_pushesBOnly(bodyA, bodyB) ==
    LET n       == collisionNormal(bodyA, bodyB)
        van     == velAlongNormal(bodyA, bodyB)
        restitution == Min(bodyA.restitution, bodyB.restitution)
        imp0    == MulDiv(-van, C + restitution, C)
        invSum  == RoundDiv(C * S, bodyA.mass) + RoundDiv(C * S, bodyB.mass)
        impulse == MulDiv(imp0, C, invSum)
        ivx     == MulDiv(impulse, n[1], C)
        ivy     == MulDiv(impulse, n[2], C)
    IN  IF van > 0
        THEN <<bodyA, bodyB>>
        ELSE << bodyA,
                [bodyB EXCEPT !.vx = @ + 2 * RoundDiv(ivx * S, bodyB.mass),
                              !.vy = @ + 2 * RoundDiv(ivy * S, bodyB.mass)] >>

\* Physics.resolveCollision: the pair <<bodyA, bodyB>> after the call
resolveCollision(bodyA, bodyB) ==
    LET n       == collisionNormal(bodyA, bodyB)
        van     == velAlongNormal(bodyA, bodyB)
        restitution == Min(bodyA.restitution, bodyB.restitution)
        imp0    == MulDiv(-van, C + restitution, C)
        invSum  == RoundDiv(C * S, bodyA.mass) + RoundDiv(C * S, bodyB.mass)
        impulse == MulDiv(imp0, C, invSum)
        ivx     == MulDiv(impulse, n[1], C)
        ivy     == MulDiv(impulse, n[2], C)
    IN  IF van > 0
        THEN <<bodyA, bodyB>>
        ELSE << [bodyA EXCEPT !.vx = @ - RoundDiv(ivx * S, bodyA.mass),
                              !.vy = @ - RoundDiv(ivy * S, bodyA.mass)],
                [bodyB EXCEPT !.vx = @ + RoundDiv(ivx * S, bodyB.mass),
                              !.vy = @ + RoundDiv(ivy * S, bodyB.mass)] >>

---------------------------------------------------------------------------
(* Modular engine: the joints module (src/unnamed/part_000)                *)

\* Joints.jointTypes: damping and strength in 1/C, restLength in 1/S.
\* A key that the table does not define reads as 0 and is never used by
\* the joint type that lacks it.
jointTypes(type) ==
    CASE type = "distance" -> [known |-> TRUE, damping |-> 1000, strength |-> 10000,
                               springConstant |-> 0, restLength |-> 0]
      [] type = "pivot"    -> [known |-> TRUE, damping |-> 500, strength |-> 10000,
                               springConstant |-> 0, restLength |-> 0]
      [] type = "spring"   -> [known |-> TRUE, damping |-> 2000, strength |-> 0,
                               springConstant |-> 100, restLength |-> 100 * S]
      [] type = "weld"     -> [known |-> TRUE, damping |-> 0, strength |-> 10000,
                               springConstant |-> 0, restLength |-> 0]
      [] OTHER             -> [known |-> FALSE, damping |-> 0, strength |-> 0,
                               springConstant |-> 0, restLength |-> 0]

\* Joints.calculateDistance
calculateDistance(bodyA, bodyB) == Hypot(bodyB.px - bodyA.px, bodyB.py - bodyA.py)

\* the joint object built by Joints.createJoint (both bodies and the type
\* valid); a and b are the references to the two bodies
newJoint(id, a, b, bodyA, bodyB, type, options) ==
    LET jt == jointTypes(type)
    IN  [ id             |-> id,
          type           |-> type,
          bodyA          |-> a,
          bodyB          |-> b,
          enabled        |-> TRUE,
          damping        |-> jt.damping,
          strength       |-> jt.strength,
          targetDistance |-> IF options.targetDistance # 0
                             THEN options.targetDistance
                             ELSE calculateDistance(bodyA, bodyB),
          springConstant |-> IF "springConstant" \in DOMAIN options
                                /\ options.springConstant # 0
                             THEN options.springConstant
                             ELSE jt.springConstant,
          restLength     |-> IF "restLength" \in DOMAIN options /\ options.restLength # 0
                             THEN options.restLength
                             ELSE jt.restLength,
          pivotPoint     |-> << RoundDiv(bodyA.px + bodyB.px, 2),
                                RoundDiv(bodyA.py + bodyB.py, 2) >>,
          lastDistance   |-> 0 ]

\* Joints.applyDistanceJoint: <<bodyA, bodyB, joint>> after the call
applyDistanceJoint(joint, bodyA, bodyB, fr) ==
    LET dx == bodyB.px - bodyA.px
        dy == bodyB.py - bodyA.py
        currentDistance == Hypot(dx, dy)
        error == currentDistance - joint.targetDistance
        correctionFactor ==
            MulDiv(RoundDiv(error * C, currentDistance), joint.strength, C)
        dampX == RoundDiv(MulDiv(bodyB.vx - bodyA.vx, joint.damping, C), fr)
        dampY == RoundDiv(MulDiv(bodyB.vy - bodyA.vy, joint.damping, C), fr)
        \* a correction in 1/C of a pixel, brought to 1/S
        correctionX ==
            RoundDiv(RoundDiv(MulDiv(RoundDiv(dx * C, currentDistance),
                                     correctionFactor, C), 2) * S, C)
        correctionY ==
            RoundDiv(RoundDiv(MulDiv(RoundDiv(dy * C, currentDistance),
                                     correctionFactor, C), 2) * S, C)
    IN  IF currentDistance * 1000 < S
        THEN <<bodyA, bodyB, joint>>
        ELSE << [bodyA EXCEPT !.px = @ + (correctionX - dampX),
                              !.py = @ + (correctionY - dampY)],
                [bodyB EXCEPT !.px = @ - (correctionX + dampX),
                              !.py = @ - (correctionY + dampY)],
                [joint EXCEPT !.lastDistance = currentDistance] >>

\* Joints.applySpringJoint
applySpringJoint(joint, bodyA, bodyB, fr) ==
    LET dx == bodyB.px - bodyA.px
        dy == bodyB.py - bodyA.py
        currentLength == Hypot(dx, dy)
        extension   == currentLength - joint.restLength
        springForce == joint.springConstant * extension
        forceX == -MulDiv(springForce, RoundDiv(dx * C, currentLength), C)
        forceY == -MulDiv(springForce, RoundDiv(dy * C, currentLength), C)
        dampingForceX == MulDiv(bodyB.vx - bodyA.vx, joint.damping, C)
        dampingForceY == MulDiv(bodyB.vy - bodyA.vy, joint.damping, C)
        dv(f, m) == RoundDiv(RoundDiv(f, fr) * S, m)
    IN  IF currentLength * 1000 < S
        THEN <<bodyA, bodyB, joint>>
        ELSE << [bodyA EXCEPT !.vx = @ - dv(forceX + dampingForceX, bodyA.mass),
                              !.vy = @ - dv(forceY + dampingForceY, bodyA.mass)],
                [bodyB EXCEPT !.vx = @ + dv(forceX - dampingForceX, bodyB.mass),
                              !.vy = @ + dv(forceY - dampingForceY, bodyB.mass)],
                joint >>

\* distance of a body from the joint's pivot point
pivotRadius(joint, body) ==
    Hypot(body.px - joint.pivotPoint[1], body.py - joint.pivotPoint[2])

\* Math.sin(Math.atan2(y, x)) * correctionStrength, with
\* sin(atan2(y, x)) = y / sqrt(x*x + y*y); the result in 1/S
pivotKick(joint, body) ==
    LET y == body.py - joint.pivotPoint[2]
        correctionStrength == RoundDiv(joint.strength, 10)
    IN  RoundDiv(MulDiv(RoundDiv(y * C, pivotRadius(joint, body)),
                        correctionStrength, C) * S, C)

\* Joints.applyPivotJoint
applyPivotJoint(joint, bodyA, bodyB, fr) ==
    IF pivotRadius(joint, bodyA) * 1000 < S \/ pivotRadius(joint, bodyB) * 1000 < S
    THEN <<bodyA, bodyB, joint>>
    ELSE << [bodyA EXCEPT !.angularVelocity =
                 MulDiv(@ + pivotKick(joint, bodyA), C - joint.damping, C)],
            [bodyB EXCEPT !.angularVelocity =
                 MulDiv(@ + pivotKick(joint, bodyB), C - joint.damping, C)],
            joint >>

\* Joints.applyWeldJoint; joint.targetAngle is never set, so the target
\* offset is (targetDistance, 0)
applyWeldJoint(joint, bodyA, bodyB, fr) ==
    LET errorX == (bodyB.px - bodyA.px) - joint.targetDistance
        errorY == (bodyB.py - bodyA.py) - 0
        cx == MulDiv(RoundDiv(errorX, 2), joint.strength, C)
        cy == MulDiv(RoundDiv(errorY, 2), joint.strength, C)
        avgVelX == RoundDiv(bodyA.vx + bodyB.vx, 2)
        avgVelY == RoundDiv(bodyA.vy + bodyB.vy, 2)
    IN  << [bodyA EXCEPT !.px = @ + cx, !.py = @ + cy,
                         !.vx = avgVelX, !.vy = avgVelY],
           [bodyB EXCEPT !.px = @ - cx, !.py = @ - cy,
                         !.vx = avgVelX, !.vy = avgVelY],
           joint >>

\* the switch of Joints.updateJoints for one enabled joint
applyJoint(joint, bodyA, bodyB, fr) ==
    CASE joint.type = "distance" -> applyDistanceJoint(joint, bodyA, bodyB, fr)
      [] joint.type = "spring"   -> applySpringJoint(joint, bodyA, bodyB, fr)
      [] joint.type = "pivot"    -> applyPivotJoint(joint, bodyA, bodyB, fr)
      [] joint.type = "weld"     -> applyWeldJoint(joint, bodyA, bodyB, fr)
      [] OTHER                   -> <<bodyA, bodyB, joint>>

\* one joint applied to the heap of body objects: <<heap, joint>>.
\* When both references are the same object the two bodies of the code are
\* aliases: the distance, spring and weld updates cancel or are skipped
\* (distance 0), the pivot update is applied to the one object twice.
applyJointHeap(hp, joint, fr) ==
    LET a == joint.bodyA
        b == joint.bodyB
    IN  IF ~joint.enabled THEN <<hp, joint>>
        ELSE IF a # b
        THEN With(applyJoint(joint, hp[a], hp[b], fr), LAMBDA r :
                  << [hp EXCEPT ![a] = r[1], ![b] = r[2]], r[3] >>)
        ELSE IF joint.type = "pivot" /\ pivotRadius(joint, hp[a]) * 1000 >= S
        THEN << [hp EXCEPT ![a].angularVelocity =
                    MulDiv(MulDiv(@ + 2 * pivotKick(joint, hp[a]),
                                  C - joint.damping, C),
                           C - joint.damping, C)], joint >>
        ELSE <<hp, joint>>

RECURSIVE updateJointsFrom(_, _, _, _)
\* Joints.updateJoints from joint k on: <<heap, joints>>
updateJointsFrom(hp, js, k, fr) ==
    IF k > Len(js) THEN <<hp, js>>
    ELSE With(applyJointHeap(hp, js[k], fr), LAMBDA r :
         With([js EXCEPT ![k] = r[2]], LAMBDA js1 :
              updateJointsFrom(r[1], js1, k + 1, fr)))

\* Joints.updateJoints
updateJoints(hp, js, fr) == updateJointsFrom(hp, js, 1, fr)

RECURSIVE resolvePairsFrom(_, _, _, _)
\* the double loop of Physics.resolveBodyCollisions from pair (i, j) on
resolvePairsFrom(hp, bs, i, j) ==
    IF i > Len(bs) THEN hp
    ELSE IF j > Len(bs) THEN resolvePairsFrom(hp, bs, i + 1, i + 2)
    ELSE With(hp[bs[i]], LAMBDA bodyA :
         With(hp[bs[j]], LAMBDA bodyB :
             IF bodyA.isSleeping /\ bodyB.isSleeping
             THEN resolvePairsFrom(hp, bs, i, j + 1)
             ELSE IF checkBodyCollision(bodyA, bodyB)
             THEN With(wakeBody(bodyA), LAMBDA wA :
                  With(wakeBody(bodyB), LAMBDA wB :
                  With(resolveCollision(wA, wB), LAMBDA r :
                  With([hp EXCEPT ![bs[i]] = r[1], ![bs[j]] = r[2]], LAMBDA hp1 :
                       resolvePairsFrom(hp1, bs, i, j + 1)))))
             ELSE resolvePairsFrom(hp, bs, i, j + 1)))

\* Physics.resolveBodyCollisions
resolveBodyCollisions(hp, bs) == resolvePairsFrom(hp, bs, 1, 2)

---------------------------------------------------------------------------
(* Modular engine: the orchestrator MiniNewton (src/unnamed/part_001)      *)

\* number of orchestrator calls explored from the initial state
MaxOps == 4

VARIABLES
    settings,        \* MiniNewton.settings
    heap,            \* the body objects, by reference
    bodies,          \* MiniNewton.bodies: references, in index order
    joints,          \* MiniNewton.joints
    simulationData,  \* MiniNewton.simulationData
    isSimulating,    \* MiniNewton.isSimulating
    pc,              \* position inside simulate(): "idle" between calls
    frame,           \* loop variable frame of simulate()
    bi,              \* loop variable i of simulate(), 1-based
    ret,             \* value returned by the last call
    lastOp,          \* name of the last call (history)
    lastArgs,        \* its arguments (history)
    pre,             \* getStatus() before the last call (history)
    ops,             \* calls made so far
    rng,             \* Enhanced engine: the values Math.random() will return
    clock,           \* Enhanced engine: the value Date.now() returns
    contactData,     \* Enhanced engine: MiniNewton.contactData
    history,         \* Enhanced engine: the runs of simulate() (history)
    controls,        \* panel: the enabled flags of the buttons
    tasks            \* panel: the tasks app.scheduleTask holds

mvars == << settings, heap, bodies, joints, simulationData, isSimulating,
            pc, frame, bi, ret, lastOp, lastArgs, pre, ops >>

\* the variables only the Enhanced engine uses
evars == << rng, clock, contactData, history >>

\* the variables only the panel uses
uvars == << controls, tasks >>

vars == << settings, heap, bodies, joints, simulationData, isSimulating,
           pc, frame, bi, ret, lastOp, lastArgs, pre, ops,
           rng, clock, contactData, history, controls, tasks >>

\* the buttons as createUI leaves them: Run Simulation and Bake disabled
NoControls == [ simulateBtn |-> FALSE, bakeBtn |-> FALSE ]

\* no task scheduled, none running
NoTasks == [ pending |-> 0, running |-> FALSE ]

\* no random source, no run yet
NoRng == [ stream |-> "none", index |-> 0 ]

NoHistory == [ runs |-> 0 ]

\* comp.selectedLayers: the layers a user can select.  A layer name is the
\* list of its '_'-separated parts, in lower case; no part is a substring
\* of another part.  ok = FALSE: reading the transform throws.
LayerX == [ name |-> <<"x">>, width |-> 100, height |-> 100,
            scale |-> <<100, 100>>, position |-> <<400 * S, 850 * S>>,
            rotation |-> 0, ok |-> TRUE ]

LayerY == [ name |-> <<"y", "distance", "x">>, width |-> 80, height |-> 80,
            scale |-> <<100, 100>>, position |-> <<400 * S, 600 * S>>,
            rotation |-> 0, ok |-> TRUE ]

LayerZ == [ name |-> <<"z", "weld", "x">>, width |-> 100, height |-> 100,
            scale |-> <<100, 100>>, position |-> <<450 * S, 820 * S>>,
            rotation |-> 0, ok |-> TRUE ]

LayerBad == [ name |-> <<"bad">>, width |-> 100, height |-> 100,
              scale |-> <<100, 100>>, position |-> <<0, 0>>,
              rotation |-> 0, ok |-> FALSE ]

Selections == { <<>>, <<LayerX>>, <<LayerX, LayerY>>, <<LayerBad>>,
                <<LayerZ, LayerBad, LayerX>> }

\* settings a caller passes to init(); gravity in 1/S, coefficients in 1/C.
\* A low frame rate keeps a run short: 4 frames, and a body at rest falls
\* asleep in the third (sleepTimer 1.5 > 1.0).
RunSettings == [ gravityVector |-> <<0, 40 * S>>, bounce |-> 5000,
                 floorY |-> 900 * S, duration |-> 2, frameRate |-> 2,
                 damping |-> 9800, friction |-> 3000, material |-> "rubber",
                 enableInterBodyCollision |-> TRUE, enableSleeping |-> TRUE ]

SettingsChoices ==
    { RunSettings,
      [RunSettings EXCEPT !.enableInterBodyCollision = FALSE,
                          !.enableSleeping = FALSE,
                          !.duration = 1,
                          !.material = "default"] }

\* Math.random() - 0.5 in units of 1/S: Math.random() returns 0.50 or 0.51
RandomValues == { 0, 1 }

JointTypeInputs == { "distance", "rope" }

NoOptions == [ targetDistance |-> 0 ]

OptionInputs == { NoOptions }

\* MiniNewton.getStatus
getStatus == [ bodies       |-> Len(bodies),
               joints       |-> Len(joints),
               isSimulating |-> isSimulating,
               hasData      |-> Len(simulationData) > 0 ]

\* references held by the program (and by the recorded history)
liveRefs(bs, js, sd) ==
    Range(bs) \cup {js[k].bodyA : k \in DOMAIN js} \cup {js[k].bodyB : k \in DOMAIN js}
        \cup UNION { {sd[i][f].body : f \in DOMAIN sd[i]} : i \in DOMAIN sd }

RECURSIVE freshRefs(_, _, _)
\* n references not in use, smallest first
freshRefs(used, n, from) ==
    IF n = 0 THEN <<>>
    ELSE IF from \in used THEN freshRefs(used, n, from + 1)
    ELSE <<from>> \o freshRefs(used, n - 1, from + 1)

\* a joint id that no joint of js has
freshJointId(js) ==
    CHOOSE k \in 1..(Len(js) + 1) : \A q \in DOMAIN js : js[q].id # k

\* the heap without the objects nothing refers to
collect(hp, bs, js, sd) ==
    [r \in (DOMAIN hp) \cap liveRefs(bs, js, sd) |-> hp[r]]

RECURSIVE okLayers(_)
\* the layers of a selection for which createBody returns a body
okLayers(sel) ==
    IF sel = <<>> THEN <<>>
    ELSE IF Head(sel).ok THEN <<Head(sel)>> \o okLayers(Tail(sel))
    ELSE okLayers(Tail(sel))

MInit ==
    /\ settings \in SettingsChoices
    /\ heap = <<>>
    /\ bodies = <<>>
    /\ joints = <<>>
    /\ simulationData = <<>>
    /\ isSimulating = FALSE
    /\ pc = "idle"
    /\ frame = 0
    /\ bi = 0
    /\ ret = FALSE
    /\ lastOp = "init"
    /\ lastArgs = <<>>
    /\ pre = [bodies |-> 0, joints |-> 0, isSimulating |-> FALSE, hasData |-> FALSE]
    /\ ops = 0
    /\ rng = NoRng
    /\ clock = 0
    /\ contactData = <<>>
    /\ history = NoHistory
    /\ controls = NoControls
    /\ tasks = NoTasks

\* bookkeeping common to every call
called(name, args) ==
    /\ pc = "idle"
    /\ ops < MaxOps
    /\ ops' = ops + 1
    /\ lastOp' = name
    /\ lastArgs' = args
    /\ pre' = getStatus
    /\ UNCHANGED evars

\* MiniNewton.addBodiesFromSelection; hasComp: an active composition exists
addBodiesFromSelection(hasComp, sel) ==
    /\ called("addBodiesFromSelection", <<hasComp, Len(sel)>>)
    /\ IF ~hasComp \/ Len(sel) = 0
       THEN /\ ret' = FALSE
            /\ UNCHANGED <<heap, bodies>>
       ELSE LET ls   == okLayers(sel)
                refs == freshRefs(DOMAIN heap, Len(ls), 1)
                hp   == [r \in (DOMAIN heap) \cup Range(refs) |->
                            IF r \in DOMAIN heap THEN heap[r]
                            ELSE createBody(ls[CHOOSE k \in DOMAIN refs : refs[k] = r],
                                            settings)]
            IN  /\ bodies' = refs
                /\ heap' = collect(hp, refs, joints, simulationData)
                /\ ret' = (Len(refs) > 0)
    /\ UNCHANGED <<settings, joints, simulationData, isSimulating, pc, frame, bi>>

\* MiniNewton.createJoint with Joints.createJoint; indices are 0-based
createJoint(bodyIndexA, bodyIndexB, jointType, options) ==
    /\ called("createJoint", <<bodyIndexA, bodyIndexB, jointType>>)
    /\ IF bodyIndexA >= Len(bodies) \/ bodyIndexB >= Len(bodies)
       THEN ret' = FALSE /\ UNCHANGED joints
       ELSE \* bodies[i] is undefined for an index below 0
            IF bodyIndexA < 0 \/ bodyIndexB < 0 \/ ~jointTypes(jointType).known
            THEN ret' = FALSE /\ UNCHANGED joints
            ELSE LET a == bodies[bodyIndexA + 1]
                     b == bodies[bodyIndexB + 1]
                 IN  /\ joints' = Append(joints,
                                     newJoint(freshJointId(joints), a, b,
                                              heap[a], heap[b], jointType, options))
                     /\ ret' = TRUE
    /\ UNCHANGED <<settings, heap, bodies, simulationData, isSimulating, pc, frame, bi>>

\* Joints.removeJoint through MiniNewton.removeJoint
removeJoint(jointId) ==
    /\ called("removeJoint", <<jointId>>)
    /\ IF \E k \in DOMAIN joints : joints[k].id = jointId
       THEN LET k  == CHOOSE q \in DOMAIN joints :
                          /\ joints[q].id = jointId
                          /\ \A q2 \in DOMAIN joints : joints[q2].id = jointId => q2 <= q
                js == SubSeq(joints, 1, k - 1) \o SubSeq(joints, k + 1, Len(joints))
            IN  /\ joints' = js
                /\ heap' = collect(heap, bodies, js, simulationData)
                /\ ret' = TRUE
       ELSE ret' = FALSE /\ UNCHANGED <<joints, heap>>
    /\ UNCHANGED <<settings, bodies, simulationData, isSimulating, pc, frame, bi>>

\* does the (lower-case) layer name contain the text target?
nameContains(name, target) == \E k \in DOMAIN name : name[k] = target

\* the inner loop of autoCreateJoints: the first body j # i whose layer
\* name contains the target name, or 0
autoTarget(hp, bs, i) ==
    LET target == hp[bs[i]].layer[3]
        hits   == { j \in DOMAIN bs : j # i /\ nameContains(hp[bs[j]].layer, target) }
    IN  IF hits = {} THEN 0 ELSE CHOOSE j \in hits : \A q \in hits : j <= q

RECURSIVE autoCreateFrom(_, _, _, _, _)
\* the outer loop of autoCreateJoints from body i on: <<joints, createdJoints>>
autoCreateFrom(hp, bs, js, i, created) ==
    IF i > Len(bs) THEN <<js, created>>
    ELSE LET name == hp[bs[i]].layer
             j    == IF Len(name) >= 3 THEN autoTarget(hp, bs, i) ELSE 0
         IN  IF j # 0 /\ jointTypes(name[2]).known
             THEN autoCreateFrom(hp, bs,
                      Append(js, newJoint(freshJointId(js), bs[i], bs[j],
                                          hp[bs[i]], hp[bs[j]], name[2], NoOptions)),
                      i + 1, created + 1)
             ELSE autoCreateFrom(hp, bs, js, i + 1, created)

\* MiniNewton.autoCreateJoints
autoCreateJoints ==
    /\ called("autoCreateJoints", <<>>)
    /\ LET r == autoCreateFrom(heap, bodies, joints, 1, 0)
       IN  joints' = r[1] /\ ret' = (r[2] > 0)
    /\ UNCHANGED <<settings, heap, bodies, simulationData, isSimulating, pc, frame, bi>>

\* Math.floor(duration * frameRate)
totalFrames == settings.duration * settings.frameRate

\* the sample stored in simulationData[i][frame]; time in 1/C second.
\* body is the reference of the sampled object (history, not in the code).
sampleOf(body, ref, f) ==
    [ position |-> <<body.px, body.py>>,
      rotation |-> body.rotation,
      time     |-> RoundDiv(f * C, settings.frameRate),
      body     |-> ref ]

\* a faulty store: a sleeping body is passed over without a sample
storeSample_skipSleeping(sd, i, f, sample, wasSleeping) ==
    IF wasSleeping THEN sd ELSE [sd EXCEPT ![i] = (f :> sample) @@ @]

\* self.simulationData[i][frame] = {...}: the store of the sleeping branch
\* (wasSleeping) and the store at the end of the loop body
storeSample(sd, i, f, sample, wasSleeping) ==
    [sd EXCEPT ![i] = (f :> sample) @@ @]

\* the position after the body loop of a frame: the phases that are
\* switched off or empty are passed over
afterBodies == IF settings.enableInterBodyCollision THEN "collide"
               ELSE IF Len(joints) > 0 THEN "joints" ELSE "next"

\* leave a frame: next frame, or return true from simulate()
endFrame ==
    IF frame + 1 < totalFrames
    THEN /\ frame' = frame + 1
         /\ bi' = 1
         /\ pc' = "bodies"
         /\ UNCHANGED <<isSimulating, ret>>
    ELSE /\ frame' = 0
         /\ bi' = 0
         /\ pc' = "idle"
         /\ isSimulating' = FALSE
         /\ ret' = TRUE

\* a faulty simulate: the buffers are cleared before the zero-body check
simulate_clearsFirst ==
    /\ called("simulate", <<>>)
    /\ Len(bodies) = 0
    /\ ret' = FALSE
    /\ simulationData' = <<>>
    /\ isSimulating' = TRUE
    /\ UNCHANGED <<settings, heap, bodies, joints, pc, frame, bi>>

\* MiniNewton.simulate: entry, up to the first frame
simulate ==
    /\ called("simulate", <<>>)
    /\ IF Len(bodies) = 0
       THEN /\ ret' = FALSE
            /\ UNCHANGED <<heap, simulationData, isSimulating, pc, frame, bi>>
       ELSE /\ simulationData' = [b \in DOMAIN bodies |-> <<>>]
            /\ heap' = collect(heap, bodies, joints, <<>>)
            /\ IF totalFrames > 0
               THEN /\ isSimulating' = TRUE
                    /\ pc' = "bodies"
                    /\ frame' = 0
                    /\ bi' = 1
                    /\ UNCHANGED ret
               ELSE /\ isSimulating' = FALSE
                    /\ ret' = TRUE
                    /\ UNCHANGED <<pc, frame, bi>>
    /\ UNCHANGED <<settings, bodies, joints>>

\* the body of the loop over the bodies, for body i of the current frame
integrateBody(body, st, rnd) ==
    IF st.enableSleeping /\ body.isSleeping THEN body
    ELSE With(applyGravity(body, st.gravityVector, st.frameRate), LAMBDA b1 :
         With(applyDamping(b1, st.damping), LAMBDA b2 :
         With(updatePosition(b2, st.frameRate), LAMBDA b3 :
         With(checkFloorCollision(b3, st.floorY, st.bounce, rnd), LAMBDA b4 :
         With(applyMaterialFriction(b4, st.frameRate), LAMBDA b5 :
              IF st.enableSleeping THEN updateSleepState(b5, RoundDiv(C, st.frameRate))
              ELSE b5)))))

\* simulate(): one pass of the loop over the bodies
simulateBody ==
    /\ pc = "bodies"
    /\ \E rnd \in RandomValues :
       \E ref \in { bodies[bi] } :
       \E body \in { integrateBody(heap[ref], settings, rnd) } :
             /\ heap' = [heap EXCEPT ![ref] = body]
             /\ simulationData' =
                  storeSample(simulationData, bi, frame, sampleOf(body, ref, frame),
                              settings.enableSleeping /\ heap[ref].isSleeping)
    /\ IF bi < Len(bodies)
       THEN bi' = bi + 1 /\ UNCHANGED <<pc, frame, isSimulating, ret>>
       ELSE IF afterBodies = "next" THEN endFrame
       ELSE pc' = afterBodies /\ UNCHANGED <<bi, frame, isSimulating, ret>>
    /\ UNCHANGED <<settings, bodies, joints, lastOp, lastArgs, pre, ops>>
    /\ UNCHANGED evars
    /\ UNCHANGED uvars

\* simulate(): Physics.resolveBodyCollisions(self.bodies)
simulateCollisions ==
    /\ pc = "collide"
    /\ heap' = resolveBodyCollisions(heap, bodies)
    /\ IF Len(joints) > 0
       THEN pc' = "joints" /\ UNCHANGED <<bi, frame, isSimulating, ret>>
       ELSE endFrame
    /\ UNCHANGED <<settings, bodies, joints, simulationData, lastOp, lastArgs, pre, ops>>
    /\ UNCHANGED evars
    /\ UNCHANGED uvars

\* simulate(): Joints.updateJoints(self.joints, deltaTime)
simulateJoints ==
    /\ pc = "joints"
    /\ \E r \in { updateJoints(heap, joints, settings.frameRate) } :
          heap' = r[1] /\ joints' = r[2]
    /\ endFrame
    /\ UNCHANGED <<settings, bodies, simulationData, lastOp, lastArgs, pre, ops>>
    /\ UNCHANGED evars
    /\ UNCHANGED uvars

\* MiniNewton.bake: the keyframes go to the host document; a body without
\* a buffer makes frameData.length throw, which bake catches
bake(hasComp) ==
    /\ called("bake", <<hasComp>>)
    /\ ret' = /\ Len(simulationData) > 0
              /\ hasComp
              /\ Len(bodies) <= Len(simulationData)
    /\ UNCHANGED <<settings, heap, bodies, joints, simulationData, isSimulating,
                   pc, frame, bi>>

\* a faulty reset: the joints are kept
reset_keepsJoints ==
    /\ called("reset", <<>>)
    /\ bodies' = <<>>
    /\ simulationData' = <<>>
    /\ isSimulating' = FALSE
    /\ heap' = collect(heap, <<>>, joints, <<>>)
    /\ ret' = FALSE
    /\ UNCHANGED <<settings, joints, pc, frame, bi>>

\* MiniNewton.reset
reset ==
    /\ called("reset", <<>>)
    /\ bodies' = <<>>
    /\ joints' = <<>>
    /\ simulationData' = <<>>
    /\ isSimulating' = FALSE
    /\ heap' = <<>>
    /\ ret' = FALSE
    /\ UNCHANGED <<settings, pc, frame, bi>>

MNext ==
    \/ /\ \E hasComp \in BOOLEAN, sel \in Selections : addBodiesFromSelection(hasComp, sel)
       /\ UNCHANGED uvars
    \/ /\ \E a \in -1..2, b \in -1..2, jt \in JointTypeInputs, o \in OptionInputs :
             createJoint(a, b, jt, o)
       /\ UNCHANGED uvars
    \/ /\ \E id \in 1..2 : removeJoint(id)
       /\ UNCHANGED uvars
    \/ /\ autoCreateJoints
       /\ UNCHANGED uvars
    \/ /\ simulate
       /\ UNCHANGED uvars
    \/ simulateBody
    \/ simulateCollisions
    \/ simulateJoints
    \/ /\ \E hasComp \in BOOLEAN : bake(hasComp)
       /\ UNCHANGED uvars
    \/ /\ reset
       /\ UNCHANGED uvars

Spec == MInit /\ [][MNext]_vars

---------------------------------------------------------------------------
(* Properties of the orchestrator                                          *)

\* simulate() has just returned true
simulateReturnedTrue == lastOp = "simulate" /\ pc = "idle" /\ ret = TRUE

\* C1: whenever simulate() returns true, simulationData holds one sample
\* sequence per registered body, in body-index order, and every sequence
\* has a sample at each frame index 0 .. floor(duration*frameRate) - 1 and
\* nowhere else.
C1_OneFullSequencePerBody ==
    simulateReturnedTrue =>
        /\ Len(simulationData) = Len(bodies)
        /\ \A i \in DOMAIN simulationData :
              /\ DOMAIN simulationData[i] = 0..(totalFrames - 1)
              /\ \A f \in DOMAIN simulationData[i] :
                    /\ simulationData[i][f].body = bodies[i]
                    /\ simulationData[i][f].time = RoundDiv(f * C, settings.frameRate)

\* a run with collisions on and a joint present has returned true, and a
\* body of it fell asleep during the run
C1_Witness ==
    /\ simulateReturnedTrue
    /\ settings.enableInterBodyCollision
    /\ settings.enableSleeping
    /\ Len(bodies) = 2
    /\ Len(joints) > 0
    /\ \E i \in DOMAIN bodies : heap[bodies[i]].isSleeping

\* C2: simulate() called with zero bodies returns false and leaves
\* simulationData, bodies, joints and isSimulating as they were.
C2_ZeroBodiesNoMutation ==
    [][ (pc = "idle" /\ lastOp' = "simulate" /\ ops' = ops + 1 /\ Len(bodies) = 0)
          => /\ ret' = FALSE
             /\ simulationData' = simulationData
             /\ bodies' = bodies
             /\ joints' = joints
             /\ isSimulating' = isSimulating
             /\ pc' = "idle" ]_mvars

\* simulate() has returned false for want of bodies while buffers of an
\* earlier run were present
C2_Witness ==
    /\ lastOp = "simulate"
    /\ pc = "idle"
    /\ ret = FALSE
    /\ Len(bodies) = 0
    /\ Len(simulationData) > 0

\* C3: after reset() the bodies, joints and buffers are empty and
\* isSimulating is false, so getStatus() reports 0, 0, false, false.
C3_ResetClearsAll ==
    lastOp = "reset" =>
        /\ bodies = <<>>
        /\ joints = <<>>
        /\ simulationData = <<>>
        /\ isSimulating = FALSE
        /\ getStatus = [bodies |-> 0, joints |-> 0, isSimulating |-> FALSE,
                        hasData |-> FALSE]

\* reset() was called with bodies, joints and buffers present
C3_Witness ==
    /\ lastOp = "reset"
    /\ pre.bodies > 0
    /\ pre.joints > 0
    /\ pre.hasData

\* the indices of the last createJoint call are in range and different
validIndices ==
    /\ lastArgs[1] >= 0 /\ lastArgs[1] < Len(bodies)
    /\ lastArgs[2] >= 0 /\ lastArgs[2] < Len(bodies)
    /\ lastArgs[1] # lastArgs[2]

\* C4: createJoint appends a joint only when both indices are in range and
\* different; otherwise it returns a failure value and leaves the joints
\* unchanged.
C4_CreateJointRejectsInvalid ==
    lastOp = "createJoint" =>
        /\ Len(joints) > pre.joints => validIndices
        /\ ~validIndices => (ret = FALSE /\ Len(joints) = pre.joints)

\* C5: every joint of the joint collection references two bodies of the
\* current body collection.
C5_JointsReferenceCurrentBodies ==
    \A k \in DOMAIN joints :
        /\ joints[k].bodyA \in Range(bodies)
        /\ joints[k].bodyB \in Range(bodies)

\* C7: with enableSleeping on, a body that is asleep before and after a
\* step of simulate() keeps its position and rotation.
C7_SleepingBodyFrozen ==
    [][ (pc # "idle" /\ settings.enableSleeping)
          => \A i \in DOMAIN bodies :
                (heap[bodies[i]].isSleeping /\ heap'[bodies[i]].isSleeping)
                   => /\ heap'[bodies[i]].px = heap[bodies[i]].px
                      /\ heap'[bodies[i]].py = heap[bodies[i]].py
                      /\ heap'[bodies[i]].rotation = heap[bodies[i]].rotation ]_mvars

\* the frame whose phases have all just run, or -1 inside a frame and
\* outside a run
frameJustEnded ==
    IF pc = "bodies" /\ bi = 1 /\ frame > 0 THEN frame - 1
    ELSE IF simulateReturnedTrue /\ totalFrames > 0 THEN totalFrames - 1
    ELSE -1

\* C17: the sample recorded for body i at frame f is the pose of the body
\* after the collision resolution and the joint corrections of frame f.
C17_SampleAfterJoints ==
    frameJustEnded >= 0 =>
       \A i \in DOMAIN bodies :
          /\ frameJustEnded \in DOMAIN simulationData[i]
          /\ simulationData[i][frameJustEnded].position
                = <<heap[bodies[i]].px, heap[bodies[i]].py>>
          /\ simulationData[i][frameJustEnded].rotation = heap[bodies[i]].rotation

---------------------------------------------------------------------------
(* Enhanced engine: Physics of MiniNewton_Enhanced.jsx                     *)

\* Physics.materials of the Enhanced engine: density in 1/S, the rest in 1/C
Enh_materials(name) ==
    CASE name = "rubber"   -> [density |-> 90,  restitution |-> 9000, friction |-> 7000]
      [] name = "metal"    -> [density |-> 780, restitution |-> 3000, friction |-> 1000]
      [] name = "wood"     -> [density |-> 60,  restitution |-> 5000, friction |-> 8000]
      [] name = "ice"      -> [density |-> 92,  restitution |-> 1000, friction |-> 200]
      [] name = "concrete" -> [density |-> 240, restitution |-> 2000, friction |-> 9000]
      [] name = "glass"    -> [density |-> 250, restitution |-> 1000, friction |-> 4000]
      [] OTHER             -> [density |-> 100, restitution |-> 8000, friction |-> 3000]

\* x * deltaTime, deltaTime = (1.0 / frameRate) * timeScale
Enh_timesDelta(x, st) == RoundDiv(MulDiv(x, st.timeScale, C), st.frameRate)

\* deltaTime in seconds, unit 1/C
Enh_deltaTime(st) == RoundDiv(st.timeScale, st.frameRate)

\* settings.collisionTolerance || 1.0, unit 1/S
Enh_tolerance(st) == IF st.collisionTolerance = 0 THEN S ELSE st.collisionTolerance

\* Physics.createBody of the Enhanced engine, for a layer it can read.
\* The area is in square metres: (width / 100) * (height / 100).
\* The Enhanced engine puts a body to sleep below 0.05 degrees per second,
\* so its angles and angular velocities are kept in units of 1/C.
Enh_createBody(layer, st, bodyType) ==
    LET width  == layer.width * layer.scale[1]
        height == layer.height * layer.scale[2]
        area   == MulDiv(width, height, S * 10000)
        props  == Enh_materials(st.material)
    IN  [ layer           |-> layer.name,
          type            |-> bodyType,
          px              |-> layer.position[1],
          py              |-> layer.position[2],
          vx              |-> 0,
          vy              |-> 0,
          ax              |-> 0,
          ay              |-> 0,
          rotation        |-> layer.rotation * (C \div S),
          angularVelocity |-> 0,
          angularAcceleration |-> 0,
          mass            |-> Max(MulDiv(area, props.density, S), 10),
          width           |-> width,
          height          |-> height,
          restitution     |-> st.bounce,
          friction        |-> st.friction,
          isGrounded      |-> FALSE,
          isSleeping      |-> FALSE,
          sleepTimer      |-> 0,
          fixedRotation   |-> FALSE,
          gravityScale    |-> S,
          linearDamping   |-> 100,
          angularDamping  |-> 500,
          contactCount    |-> 0,
          contacts        |-> <<>> ]

\* Physics.applyGravity of the Enhanced engine
Enh_applyGravity(body, gravityVector) ==
    IF body.type # "dynamic" THEN body
    ELSE IF body.isGrounded /\ gravityVector[2] > 0 THEN body
    ELSE IF body.gravityScale = 0 THEN body
    ELSE [body EXCEPT !.ax = @ + MulDiv(gravityVector[1], body.gravityScale, S),
                      !.ay = @ + MulDiv(gravityVector[2], body.gravityScale, S)]

\* Physics.applyDamping of the Enhanced engine
Enh_applyDamping(body, globalDamping) ==
    IF body.type # "dynamic" THEN body
    ELSE LET totalLinearDamping  == MulDiv(globalDamping, C - body.linearDamping, C)
             totalAngularDamping == MulDiv(globalDamping, C - body.angularDamping, C)
         IN  [body EXCEPT !.vx = MulDiv(@, totalLinearDamping, C),
                          !.vy = MulDiv(@, totalLinearDamping, C),
                          !.angularVelocity = MulDiv(@, totalAngularDamping, C)]

\* Physics.updatePosition of the Enhanced engine
Enh_updatePosition(body, st) ==
    IF body.type = "static" THEN body
    ELSE IF body.isSleeping THEN body
    ELSE LET vx == body.vx + Enh_timesDelta(body.ax, st)
             vy == body.vy + Enh_timesDelta(body.ay, st)
             av == body.angularVelocity + Enh_timesDelta(body.angularAcceleration, st)
         IN  [body EXCEPT !.vx = vx,
                          !.vy = vy,
                          !.angularVelocity = av,
                          !.px = @ + Enh_timesDelta(vx, st),
                          !.py = @ + Enh_timesDelta(vy, st),
                          !.rotation = IF body.fixedRotation THEN @
                                       ELSE @ + Enh_timesDelta(av, st),
                          !.ax = 0,
                          !.ay = 0,
                          !.angularAcceleration = 0]

\* TRUE when Physics.checkFloorCollision reads Math.random()
Enh_floorUsesRandom(body, floorY, st) ==
    /\ body.type # "static"
    /\ body.py + RoundDiv(body.height, 2) >= floorY - Enh_tolerance(st)
    /\ body.vy > 0
    /\ ~body.fixedRotation

\* Physics.checkFloorCollision of the Enhanced engine; rnd is
\* Math.random() - 0.5 in units of 1/S, now is Date.now()
Enh_checkFloorCollision(body, floorY, globalBounce, st, rnd, now) ==
    LET bodyBottom == body.py + RoundDiv(body.height, 2)
    IN  IF body.type = "static" THEN body
        ELSE IF bodyBottom >= floorY - Enh_tolerance(st)
        THEN LET b1 == [body EXCEPT !.py = floorY - RoundDiv(body.height, 2)]
                 bounceForce == MulDiv(b1.restitution, globalBounce, C)
                 vy == -MulDiv(b1.vy, bounceForce, C)
                 impactStrength == Abs(vy)
                 av == IF b1.fixedRotation THEN b1.angularVelocity
                       ELSE b1.angularVelocity + RoundDiv(rnd * impactStrength, 10)
                 hit == [b1 EXCEPT !.vy = vy,
                                   !.contacts = Append(@, [time |-> now, type |-> "floor"]),
                                   !.contactCount = @ + 1,
                                   !.angularVelocity = av]
                 b2 == IF b1.vy > 0
                       THEN IF Abs(vy) < 5 * S
                            THEN [hit EXCEPT !.vy = 0, !.isGrounded = TRUE]
                            ELSE hit
                       ELSE b1
             IN  IF b2.isGrounded
                 THEN LET frictionForce == MulDiv(b2.friction, 8000, C)
                      IN  [b2 EXCEPT !.vx = MulDiv(@, C - frictionForce, C),
                                     !.angularVelocity =
                                         IF b2.fixedRotation THEN @
                                         ELSE MulDiv(@, 9000, C)]
                 ELSE b2
        ELSE [body EXCEPT !.isGrounded = FALSE]

\* Physics.updateSleepState of the Enhanced engine
Enh_updateSleepState(body, st) ==
    IF body.type # "dynamic" THEN body
    ELSE IF SpeedBelow(body.vx, body.vy, 3 * S) /\ Abs(body.angularVelocity) < 500
    THEN LET timer == body.sleepTimer + Enh_deltaTime(st)
         IN  IF timer > C
             THEN [body EXCEPT !.sleepTimer = timer,
                               !.isSleeping = TRUE,
                               !.vx = 0,
                               !.vy = 0,
                               !.angularVelocity = 0]
             ELSE [body EXCEPT !.sleepTimer = timer]
    ELSE [body EXCEPT !.sleepTimer = 0, !.isSleeping = FALSE]

\* the AABB test of Physics.checkBodyCollision (the collision groups of
\* createBody, GROUP_A and ALL, always match)
Enh_overlaps(bodyA, bodyB, st) ==
    LET aLeft   == bodyA.px - RoundDiv(bodyA.width, 2)
        aRight  == bodyA.px + RoundDiv(bodyA.width, 2)
        aTop    == bodyA.py - RoundDiv(bodyA.height, 2)
        aBottom == bodyA.py + RoundDiv(bodyA.height, 2)
        bLeft   == bodyB.px - RoundDiv(bodyB.width, 2)
        bRight  == bodyB.px + RoundDiv(bodyB.width, 2)
        bTop    == bodyB.py - RoundDiv(bodyB.height, 2)
        bBottom == bodyB.py + RoundDiv(bodyB.height, 2)
        tolerance == Enh_tolerance(st)
    IN  /\ aLeft < bRight + tolerance
        /\ aRight > bLeft - tolerance
        /\ aTop < bBottom + tolerance
        /\ aBottom > bTop - tolerance

\* Physics.resolveCollision of the Enhanced engine: <<bodyA, bodyB>> after
Enh_resolveCollision(bodyA, bodyB, now) ==
    LET dx == bodyB.px - bodyA.px
        dy == bodyB.py - bodyA.py
        distance == Hypot(dx, dy)
        overlapX == RoundDiv(bodyA.width + bodyB.width, 2) - Abs(dx)
        overlapY == RoundDiv(bodyA.height + bodyB.height, 2) - Abs(dy)
    IN  IF bodyA.type = "static" /\ bodyB.type = "static" THEN <<bodyA, bodyB>>
        ELSE IF distance = 0 THEN <<bodyA, bodyB>>
        ELSE IF ~(overlapX > 0 /\ overlapY > 0) THEN <<bodyA, bodyB>>
        ELSE
          LET normal == <<RoundDiv(dx * C, distance), RoundDiv(dy * C, distance)>>
              separationX == RoundDiv(overlapX, 2) * Sign(dx)
              separationY == RoundDiv(overlapY, 2) * Sign(dy)
              a1 == IF bodyA.type = "dynamic"
                    THEN [bodyA EXCEPT !.px = @ - separationX, !.py = @ - separationY]
                    ELSE bodyA
              b1 == IF bodyB.type = "dynamic"
                    THEN [bodyB EXCEPT !.px = @ + separationX, !.py = @ + separationY]
                    ELSE bodyB
              velocityAlongNormal ==
                  MulDiv(b1.vx - a1.vx, normal[1], C) + MulDiv(b1.vy - a1.vy, normal[2], C)
              restitution == Min(a1.restitution, b1.restitution)
              imp0    == MulDiv(-velocityAlongNormal, C + restitution, C)
              invSum  == RoundDiv(C * S, a1.mass) + RoundDiv(C * S, b1.mass)
              impulseScalar == MulDiv(imp0, C, invSum)
              ix      == MulDiv(impulseScalar, normal[1], C)
              iy      == MulDiv(impulseScalar, normal[2], C)
              a2 == IF a1.type = "dynamic"
                    THEN [a1 EXCEPT !.vx = @ - RoundDiv(ix * S, a1.mass),
                                    !.vy = @ - RoundDiv(iy * S, a1.mass)]
                    ELSE a1
              b2 == IF b1.type = "dynamic"
                    THEN [b1 EXCEPT !.vx = @ + RoundDiv(ix * S, b1.mass),
                                    !.vy = @ + RoundDiv(iy * S, b1.mass)]
                    ELSE b1
              contact == [time |-> now, type |-> "body"]
          IN  IF velocityAlongNormal > 0 THEN <<a1, b1>>
              ELSE << [a2 EXCEPT !.contacts = Append(@, contact), !.contactCount = @ + 1],
                      [b2 EXCEPT !.contacts = Append(@, contact), !.contactCount = @ + 1] >>

\* Physics.checkBodyCollision of the Enhanced engine: <<bodyA, bodyB>> after
Enh_checkBodyCollision(bodyA, bodyB, st, now) ==
    IF Enh_overlaps(bodyA, bodyB, st) THEN Enh_resolveCollision(bodyA, bodyB, now)
    ELSE <<bodyA, bodyB>>

---------------------------------------------------------------------------
(* Enhanced engine: Joints of MiniNewton_Enhanced.jsx                      *)

\* Joints.createJoint of the Enhanced engine (the motor and limit fields
\* are read by no update function); an option that is 0 is absent
Enh_createJoint(id, a, b, bodyA, bodyB, type, options) ==
    [ id             |-> id,
      type           |-> type,
      bodyA          |-> a,
      bodyB          |-> b,
      anchorA        |-> options.anchorA,
      anchorB        |-> options.anchorB,
      targetDistance |-> IF type = "distance"
                         THEN IF options.targetDistance # 0
                              THEN options.targetDistance
                              ELSE Hypot(bodyB.px - bodyA.px, bodyB.py - bodyA.py)
                         ELSE 0,
      stiffness      |-> IF options.stiffness # 0 THEN options.stiffness ELSE C,
      damping        |-> IF options.damping # 0 THEN options.damping ELSE 1000 ]

\* a faulty updateDistanceJoint: each body takes the whole correction
Enh_updateDistanceJoint_fullCorrection(joint, bodyA, bodyB) ==
    LET dx == bodyB.px - bodyA.px
        dy == bodyB.py - bodyA.py
        currentDistance == Hypot(dx, dy)
    IN  IF currentDistance = 0 THEN <<bodyA, bodyB>>
        ELSE LET difference == currentDistance - joint.targetDistance
                 correctionFactor == MulDiv(difference, joint.stiffness, C)
                 normalX == RoundDiv(dx * C, currentDistance)
                 normalY == RoundDiv(dy * C, currentDistance)
                 correctionX == MulDiv(normalX, correctionFactor, C)
                 correctionY == MulDiv(normalY, correctionFactor, C)
             IN  << IF bodyA.type = "dynamic"
                    THEN [bodyA EXCEPT !.px = @ + correctionX, !.py = @ + correctionY]
                    ELSE bodyA,
                    IF bodyB.type = "dynamic"
                    THEN [bodyB EXCEPT !.px = @ - correctionX, !.py = @ - correctionY]
                    ELSE bodyB >>

\* Joints.updateDistanceJoint: <<bodyA, bodyB>> after
Enh_updateDistanceJoint(joint, bodyA, bodyB) ==
    LET dx == bodyB.px - bodyA.px
        dy == bodyB.py - bodyA.py
        currentDistance == Hypot(dx, dy)
    IN  IF currentDistance = 0 THEN <<bodyA, bodyB>>
        ELSE LET difference == currentDistance - joint.targetDistance
                 correctionFactor == RoundDiv(MulDiv(difference, joint.stiffness, C), 2)
                 normalX == RoundDiv(dx * C, currentDistance)
                 normalY == RoundDiv(dy * C, currentDistance)
                 correctionX == MulDiv(normalX, correctionFactor, C)
                 correctionY == MulDiv(normalY, correctionFactor, C)
             IN  << IF bodyA.type = "dynamic"
                    THEN [bodyA EXCEPT !.px = @ + correctionX, !.py = @ + correctionY]
                    ELSE bodyA,
                    IF bodyB.type = "dynamic"
                    THEN [bodyB EXCEPT !.px = @ - correctionX, !.py = @ - correctionY]
                    ELSE bodyB >>

\* Joints.updateSpringJoint: <<bodyA, bodyB>> after
Enh_updateSpringJoint(joint, bodyA, bodyB) ==
    LET dx == bodyB.px - bodyA.px
        dy == bodyB.py - bodyA.py
        currentDistance == Hypot(dx, dy)
    IN  IF currentDistance = 0 THEN <<bodyA, bodyB>>
        ELSE LET springForce == MulDiv(currentDistance - joint.targetDistance,
                                       joint.stiffness, C)
                 dampingForce == joint.damping
                 normalX == RoundDiv(dx * C, currentDistance)
                 normalY == RoundDiv(dy * C, currentDistance)
                 forceX == MulDiv(normalX, springForce, C)
                 forceY == MulDiv(normalY, springForce, C)
             IN  << IF bodyA.type = "dynamic"
                    THEN [bodyA EXCEPT !.ax = @ + RoundDiv(forceX * S, bodyA.mass),
                                       !.ay = @ + RoundDiv(forceY * S, bodyA.mass),
                                       !.vx = MulDiv(@, C - dampingForce, C),
                                       !.vy = MulDiv(@, C - dampingForce, C)]
                    ELSE bodyA,
                    IF bodyB.type = "dynamic"
                    THEN [bodyB EXCEPT !.ax = @ - RoundDiv(forceX * S, bodyB.mass),
                                       !.ay = @ - RoundDiv(forceY * S, bodyB.mass),
                                       !.vx = MulDiv(@, C - dampingForce, C),
                                       !.vy = MulDiv(@, C - dampingForce, C)]
                    ELSE bodyB >>

\* a faulty updatePivotJoint: bodyB is moved whatever its type
Enh_updatePivotJoint_anyType(joint, bodyA, bodyB) ==
    LET targetX == bodyA.px + joint.anchorA[1]
        targetY == bodyA.py + joint.anchorA[2]
        dx == targetX - (bodyB.px + joint.anchorB[1])
        dy == targetY - (bodyB.py + joint.anchorB[2])
        correctionFactor == RoundDiv(joint.stiffness, 2)
    IN  << bodyA,
           [bodyB EXCEPT !.px = @ + MulDiv(dx, correctionFactor, C),
                         !.py = @ + MulDiv(dy, correctionFactor, C)] >>

\* Joints.updatePivotJoint: <<bodyA, bodyB>> after
Enh_updatePivotJoint(joint, bodyA, bodyB) ==
    LET targetX == bodyA.px + joint.anchorA[1]
        targetY == bodyA.py + joint.anchorA[2]
        dx == targetX - (bodyB.px + joint.anchorB[1])
        dy == targetY - (bodyB.py + joint.anchorB[2])
        correctionFactor == RoundDiv(joint.stiffness, 2)
    IN  << bodyA,
           IF bodyB.type = "dynamic"
           THEN [bodyB EXCEPT !.px = @ + MulDiv(dx, correctionFactor, C),
                              !.py = @ + MulDiv(dy, correctionFactor, C)]
           ELSE bodyB >>

\* Joints.updateWeldJoint: <<bodyA, bodyB>> after
Enh_updateWeldJoint(joint, bodyA, bodyB) ==
    IF bodyA.type = "static" /\ bodyB.type = "dynamic"
    THEN << bodyA,
            [bodyB EXCEPT !.px = bodyA.px + joint.anchorA[1],
                          !.py = bodyA.py + joint.anchorA[2],
                          !.vx = 0,
                          !.vy = 0] >>
    ELSE IF bodyB.type = "static" /\ bodyA.type = "dynamic"
    THEN << [bodyA EXCEPT !.px = bodyB.px + joint.anchorB[1],
                          !.py = bodyB.py + joint.anchorB[2],
                          !.vx = 0,
                          !.vy = 0],
            bodyB >>
    ELSE <<bodyA, bodyB>>

\* the switch of Joints.updateJoints, on the heap.  When bodyA and bodyB
\* are one object, no update function writes through both names.
Enh_updateJoint(hp, joint) ==
    With(hp[joint.bodyA], LAMBDA bodyA :
    With(hp[joint.bodyB], LAMBDA bodyB :
    With(CASE joint.type = "distance" -> Enh_updateDistanceJoint(joint, bodyA, bodyB)
           [] joint.type = "spring"   -> Enh_updateSpringJoint(joint, bodyA, bodyB)
           [] joint.type = "pivot"    -> Enh_updatePivotJoint(joint, bodyA, bodyB)
           [] joint.type = "weld"     -> Enh_updateWeldJoint(joint, bodyA, bodyB)
           [] OTHER                   -> <<bodyA, bodyB>>, LAMBDA r :
         [[hp EXCEPT ![joint.bodyA] = r[1]] EXCEPT ![joint.bodyB] = r[2]])))

RECURSIVE Enh_updateJointsFrom(_, _, _)
Enh_updateJointsFrom(hp, js, k) ==
    IF k > Len(js) THEN hp
    ELSE With(Enh_updateJoint(hp, js[k]), LAMBDA hp1 :
              Enh_updateJointsFrom(hp1, js, k + 1))

\* Joints.updateJoints of the Enhanced engine: the heap after
Enh_updateJoints(hp, js) == Enh_updateJointsFrom(hp, js, 1)

---------------------------------------------------------------------------
(* Enhanced engine: the orchestrator MiniNewton of MiniNewton_Enhanced.jsx *)

\* number of orchestrator calls explored from the initial state
MaxCalls == 5

\* most bodies and joints the explored calls build
EnhMaxBodies == 2

EnhMaxJoints == 1

\* DEFAULT_SETTINGS; duration in 1/S seconds, collisionTolerance in 1/S,
\* timeScale and the coefficients in 1/C
DEFAULT_SETTINGS ==
    [ gravityVector |-> <<0, 980 * S>>, bounce |-> 8000, floorY |-> 1000 * S,
      duration |-> 5 * S, frameRate |-> 30, damping |-> 9900, friction |-> 3000,
      material |-> "default", enableInterBodyCollision |-> TRUE,
      enableSleeping |-> TRUE, collisionTolerance |-> S, timeScale |-> C ]

\* settings after init(customSettings): a run of 0.07 s is two frames
EnhSettingsChoices ==
    { [DEFAULT_SETTINGS EXCEPT !.duration = 7],
      [DEFAULT_SETTINGS EXCEPT !.duration = 7, !.bounce = 5000,
                               !.enableInterBodyCollision = FALSE,
                               !.enableSleeping = FALSE] }

\* layers of the composition: A stands 50 px above B and overlaps it, B
\* stands on the floor
EnhLayerA == [ name |-> <<"a">>, width |-> 100, height |-> 100,
               scale |-> <<100, 100>>, position |-> <<400 * S, 900 * S>>,
               rotation |-> 0, ok |-> TRUE ]

EnhLayerB == [ name |-> <<"b">>, width |-> 100, height |-> 100,
               scale |-> <<100, 100>>, position |-> <<400 * S, 950 * S>>,
               rotation |-> 0, ok |-> TRUE ]

EnhSelections == { <<>>, <<EnhLayerA, EnhLayerB>>, <<LayerBad, EnhLayerB>> }

BodyTypeInputs == { "dynamic", "static" }

\* the sequences of values Math.random() can return during a run:
\* always 0.50, or 0.00 and 0.99 in turn
Streams == { "mid", "alt" }

\* the values Date.now() can return during a run
Clocks == { 1000, 2000 }

\* arguments of addJoint: indices, type, options
EnhNoOptions == [ targetDistance |-> 0, stiffness |-> 0, damping |-> 0,
                  anchorA |-> <<0, 0>>, anchorB |-> <<0, 0>> ]

EnhJointInputs == { <<0, 1, "distance", EnhNoOptions>>,
                    <<0, 2, "weld", EnhNoOptions>> }

\* Math.random() - 0.5 in units of 1/S, for the next draw of the source r
Enh_random(r) ==
    CASE r.stream = "alt" -> IF r.index % 2 = 0 THEN -50 ELSE 49
      [] OTHER            -> 0

\* totalFrames of simulate()
Enh_totalFrames == (settings.duration * settings.frameRate) \div S

\* MiniNewton.getStatus of the Enhanced engine
Enh_getStatus == [ bodies       |-> Len(bodies),
                   joints       |-> Len(joints),
                   isSimulating |-> isSimulating,
                   hasData      |-> Len(simulationData) > 0 ]

\* what a run starts from: bodies, joints (by body index), settings and
\* the values of the random source
Enh_snapshot(stream) ==
    [ bodies   |-> [i \in DOMAIN bodies |-> heap[bodies[i]]],
      joints   |-> [k \in DOMAIN joints |->
                      [joints[k] EXCEPT
                         !.id = 0,
                         !.bodyA = CHOOSE i \in DOMAIN bodies : bodies[i] = joints[k].bodyA,
                         !.bodyB = CHOOSE i \in DOMAIN bodies : bodies[i] = joints[k].bodyB]],
      settings |-> settings,
      stream   |-> stream ]

EnhNoHistory == [ runs |-> 0, start |-> <<>>, clock |-> 0, data |-> <<>>,
                  prevStart |-> <<>>, prevClock |-> 0, prevData |-> <<>> ]

\* the engine after init(customSettings)
EnhInit ==
    /\ settings \in EnhSettingsChoices
    /\ heap = <<>>
    /\ bodies = <<>>
    /\ joints = <<>>
    /\ simulationData = <<>>
    /\ contactData = <<>>
    /\ isSimulating = FALSE
    /\ pc = "idle"
    /\ frame = 0
    /\ bi = 0
    /\ ret = FALSE
    /\ lastOp = "init"
    /\ lastArgs = <<>>
    /\ pre = [bodies |-> 0, joints |-> 0, isSimulating |-> FALSE, hasData |-> FALSE]
    /\ ops = 0
    /\ rng = NoRng
    /\ clock = 0
    /\ history = EnhNoHistory
    /\ controls = NoControls
    /\ tasks = NoTasks

\* bookkeeping common to every call of the Enhanced engine
Enh_called(name, args) ==
    /\ pc = "idle"
    /\ ops < MaxCalls
    /\ ops' = ops + 1
    /\ lastOp' = name
    /\ lastArgs' = args
    /\ pre' = Enh_getStatus
    /\ UNCHANGED bi
    /\ UNCHANGED uvars

\* MiniNewton.addBodiesFromSelection of the Enhanced engine: the new
\* bodies are appended to this.bodies
Enh_addBodiesFromSelection(bodyType, hasComp, sel) ==
    /\ Enh_called("addBodiesFromSelection", <<>>)
    /\ Len(bodies) + Len(okLayers(sel)) <= EnhMaxBodies
    /\ IF ~hasComp \/ Len(sel) = 0
       THEN /\ ret' = FALSE
            /\ UNCHANGED <<heap, bodies>>
       ELSE LET ls   == okLayers(sel)
                refs == freshRefs(DOMAIN heap, Len(ls), 1)
            IN  /\ bodies' = bodies \o refs
                /\ heap' = [r \in (DOMAIN heap) \cup Range(refs) |->
                              IF r \in DOMAIN heap THEN heap[r]
                              ELSE Enh_createBody(ls[CHOOSE k \in DOMAIN refs : refs[k] = r],
                                                  settings, bodyType)]
                /\ ret' = (Len(refs) > 0)
    /\ UNCHANGED <<settings, joints, simulationData, contactData, isSimulating,
                   pc, frame, rng, clock, history>>

\* MiniNewton.addJoint with Joints.createJoint; indices are 0-based
Enh_addJoint(bodyIndexA, bodyIndexB, jointType, options) ==
    /\ Enh_called("addJoint", <<>>)
    /\ Len(joints) < EnhMaxJoints
    /\ IF bodyIndexA >= Len(bodies) \/ bodyIndexB >= Len(bodies)
       THEN /\ ret' = FALSE
            /\ UNCHANGED joints
       ELSE LET a == bodies[bodyIndexA + 1]
                b == bodies[bodyIndexB + 1]
            IN  /\ joints' = Append(joints,
                       Enh_createJoint(freshJointId(joints), a, b, heap[a], heap[b],
                                       jointType, options))
                /\ ret' = TRUE
    /\ UNCHANGED <<settings, heap, bodies, simulationData, contactData, isSimulating,
                   pc, frame, rng, clock, history>>

\* MiniNewton.reset of the Enhanced engine
Enh_reset ==
    /\ Enh_called("reset", <<>>)
    /\ bodies' = <<>>
    /\ heap' = <<>>
    /\ simulationData' = <<>>
    /\ contactData' = <<>>
    /\ isSimulating' = FALSE
    /\ joints' = <<>>
    /\ ret' = FALSE
    /\ UNCHANGED <<settings, pc, frame, rng, clock, history>>

\* the body loop of a frame, for one body: <<body, random source>> after
Enh_integrateBody(body, st, r, now) ==
    With([body EXCEPT !.contacts = <<>>], LAMBDA b0 :
    With(Enh_applyGravity(b0, st.gravityVector), LAMBDA b1 :
    With(Enh_applyDamping(b1, st.damping), LAMBDA b2 :
    With(Enh_updatePosition(b2, st), LAMBDA b3 :
    With(Enh_checkFloorCollision(b3, st.floorY, st.bounce, st, Enh_random(r), now),
         LAMBDA b4 :
           << IF st.enableSleeping THEN Enh_updateSleepState(b4, st) ELSE b4,
              IF Enh_floorUsesRandom(b3, st.floorY, st)
              THEN [r EXCEPT !.index = @ + 1] ELSE r >>)))))

RECURSIVE Enh_integrateFrom(_, _, _, _, _, _)
\* the body loop of a frame from body i on: <<heap, random source>> after
Enh_integrateFrom(hp, bs, i, st, r, now) ==
    IF i > Len(bs) THEN <<hp, r>>
    ELSE With(Enh_integrateBody(hp[bs[i]], st, r, now), LAMBDA res :
         With([hp EXCEPT ![bs[i]] = res[1]], LAMBDA hp1 :
              Enh_integrateFrom(hp1, bs, i + 1, st, res[2], now)))

RECURSIVE Enh_collideFrom(_, _, _, _, _, _)
\* the pair loops of a frame from the pair (i, j) on: the heap after
Enh_collideFrom(hp, bs, i, j, st, now) ==
    IF i > Len(bs) THEN hp
    ELSE IF j > Len(bs) THEN Enh_collideFrom(hp, bs, i + 1, i + 2, st, now)
    ELSE With(Enh_checkBodyCollision(hp[bs[i]], hp[bs[j]], st, now), LAMBDA res :
         With([[hp EXCEPT ![bs[i]] = res[1]] EXCEPT ![bs[j]] = res[2]], LAMBDA hp1 :
              Enh_collideFrom(hp1, bs, i, j + 1, st, now)))

\* a faulty sample: the time is read from the clock
Enh_sampleOf_clockTime(body, f, st, now) ==
    [ position |-> <<body.px, body.py>>,
      rotation |-> body.rotation,
      time     |-> now + RoundDiv(f * st.timeScale, st.frameRate),
      sleeping |-> body.isSleeping ]

\* the sample simulate() stores for a body in frame f; time in 1/C seconds
Enh_sampleOf(body, f, st, now) ==
    [ position |-> <<body.px, body.py>>,
      rotation |-> body.rotation,
      time     |-> RoundDiv(f * st.timeScale, st.frameRate),
      sleeping |-> body.isSleeping ]

\* the contact record simulate() stores for a body in frame f
Enh_contactOf(body, f, st) ==
    [ contacts     |-> body.contacts,
      contactCount |-> body.contactCount,
      time         |-> RoundDiv(f * st.timeScale, st.frameRate) ]

\* the heap and the random source after the three phases of a frame
Enh_step(hp, bs, js, st, r, now) ==
    With(Enh_integrateFrom(hp, bs, 1, st, r, now), LAMBDA moved :
    With(IF st.enableInterBodyCollision
         THEN Enh_collideFrom(moved[1], bs, 1, 2, st, now)
         ELSE moved[1], LAMBDA collided :
            << Enh_updateJoints(collided, js), moved[2] >>))

\* MiniNewton.simulate of the Enhanced engine: entry, up to the first
\* frame.  With no frame to run, reading the last sample throws and the
\* catch block returns false.
Enh_simulate(stream, now) ==
    /\ Enh_called("simulate", <<>>)
    /\ IF Len(bodies) = 0
       THEN /\ ret' = FALSE
            /\ UNCHANGED <<simulationData, contactData, isSimulating, pc, frame,
                           rng, clock, history>>
       ELSE /\ simulationData' = [b \in DOMAIN bodies |-> <<>>]
            /\ contactData' = [b \in DOMAIN bodies |-> <<>>]
            /\ rng' = [stream |-> stream, index |-> 0]
            /\ clock' = now
            /\ history' = [ runs      |-> IF history.runs = 0 THEN 1 ELSE 2,
                            start     |-> Enh_snapshot(stream),
                            clock     |-> now,
                            data      |-> <<>>,
                            prevStart |-> history.start,
                            prevClock |-> history.clock,
                            prevData  |-> history.data ]
            /\ frame' = 0
            /\ IF Enh_totalFrames > 0
               THEN /\ isSimulating' = TRUE
                    /\ pc' = "frames"
                    /\ UNCHANGED ret
               ELSE /\ isSimulating' = FALSE
                    /\ ret' = FALSE
                    /\ UNCHANGED pc
    /\ UNCHANGED <<settings, heap, bodies, joints>>

\* simulate(): one frame of the main loop, and the return after the last
Enh_simulateFrame ==
    /\ pc = "frames"
    /\ \E res \in { Enh_step(heap, bodies, joints, settings, rng, clock) } :
       \E sd \in { [i \in DOMAIN bodies |->
                     (frame :> Enh_sampleOf(res[1][bodies[i]], frame, settings, clock))
                        @@ simulationData[i]] } :
           /\ heap' = res[1]
           /\ rng' = res[2]
           /\ simulationData' = sd
           /\ contactData' = [i \in DOMAIN bodies |->
                     (frame :> Enh_contactOf(res[1][bodies[i]], frame, settings))
                        @@ contactData[i]]
           /\ IF frame + 1 < Enh_totalFrames
              THEN /\ frame' = frame + 1
                   /\ UNCHANGED <<pc, isSimulating, ret, history>>
              ELSE /\ frame' = 0
                   /\ pc' = "idle"
                   /\ isSimulating' = FALSE
                   /\ ret' = TRUE
                   /\ history' = [history EXCEPT !.data = sd]
    /\ UNCHANGED <<settings, bodies, joints, clock, bi, lastOp, lastArgs, pre, ops>>
    /\ UNCHANGED uvars

EnhNext ==
    \/ \E bodyType \in BodyTypeInputs, hasComp \in BOOLEAN, sel \in EnhSelections :
          Enh_addBodiesFromSelection(bodyType, hasComp, sel)
    \/ \E j \in EnhJointInputs : Enh_addJoint(j[1], j[2], j[3], j[4])
    \/ \E stream \in Streams, now \in Clocks : Enh_simulate(stream, now)
    \/ Enh_simulateFrame
    \/ Enh_reset

EnhSpec == EnhInit /\ [][EnhNext]_vars

---------------------------------------------------------------------------
(* The drop test: one dynamic body of 100 x 100 at (0, 0), released at     *)
(* rest under the default gravity above the default floor, and one call of *)
(* simulate() with the default duration and frame rate.                    *)

DropLayer == [ name |-> <<"ball">>, width |-> 100, height |-> 100,
               scale |-> <<100, 100>>, position |-> <<0, 0>>,
               rotation |-> 0, ok |-> TRUE ]

\* settings.bounce of the drop test, in 1/C
DropBounces == { 0, 3000, 5000, 8000, 9000 }

\* the engine after init({bounce}) and addBodiesFromSelection() of DropLayer
DropInit ==
    /\ settings \in { [DEFAULT_SETTINGS EXCEPT !.bounce = b] : b \in DropBounces }
    /\ heap = << Enh_createBody(DropLayer, settings, "dynamic") >>
    /\ bodies = <<1>>
    /\ joints = <<>>
    /\ simulationData = <<>>
    /\ contactData = <<>>
    /\ isSimulating = FALSE
    /\ pc = "idle"
    /\ frame = 0
    /\ bi = 0
    /\ ret = TRUE
    /\ lastOp = "addBodiesFromSelection"
    /\ lastArgs = <<>>
    /\ pre = [bodies |-> 0, joints |-> 0, isSimulating |-> FALSE, hasData |-> FALSE]
    /\ ops = 1
    /\ rng = NoRng
    /\ clock = 0
    /\ history = EnhNoHistory
    /\ controls = NoControls
    /\ tasks = NoTasks

DropNext ==
    \/ /\ lastOp = "addBodiesFromSelection"
       /\ \E stream \in Streams, now \in Clocks : Enh_simulate(stream, now)
    \/ Enh_simulateFrame

DropSpec == DropInit /\ [][DropNext]_vars

---------------------------------------------------------------------------
(* Properties of the Enhanced engine                                       *)

\* the slack of the floor bound: the collision tolerance, 1 px
Epsilon == DEFAULT_SETTINGS.collisionTolerance

\* C6: in every sample simulate() records for a dynamic body, the bottom
\* edge position.y + height/2 is at most floorY + epsilon, with inter-body
\* collisions enabled and joints present.
C6_FloorContainment ==
    \A i \in DOMAIN simulationData :
        \A f \in DOMAIN simulationData[i] :
            heap[bodies[i]].type = "dynamic" =>
                simulationData[i][f].position[2] + RoundDiv(heap[bodies[i]].height, 2)
                    <= settings.floorY + Epsilon

\* the body of the drop test
dropBody == heap[bodies[1]]

\* C8: the body of the drop test, released with a bounce in [0, 1), is
\* grounded with velocity.y = 0 and asleep when the run of simulate() ends.
C8_DropSettles ==
    (lastOp = "simulate" /\ pc = "idle" /\ settings.bounce < C) =>
        /\ dropBody.isGrounded
        /\ dropBody.vy = 0
        /\ dropBody.isSleeping

\* simulate() has returned true for the second time, and both runs started
\* from the same bodies, joints, settings and random values
sameStartTwice ==
    /\ lastOp = "simulate"
    /\ pc = "idle"
    /\ ret = TRUE
    /\ history.runs = 2
    /\ history.start = history.prevStart

\* C9: two runs of simulate() that start from identical bodies, joints and
\* settings and are fed the same random values produce identical
\* trajectory buffers.
C9_Determinism ==
    sameStartTwice => simulationData = history.prevData

\* two such runs at different clock values, with a floor impact that drew
\* from the random source
C9_Witness ==
    /\ sameStartTwice
    /\ history.clock # history.prevClock
    /\ history.start.stream = "alt"
    /\ rng.index > 0
    /\ Len(simulationData) = 2

---------------------------------------------------------------------------
(* Physics.resolveCollision of physics.js on two overlapping bodies        *)

\* the layer of bodyA, and the layers bodyB can come from: offsets along
\* an axis, along a 3-4-5 direction, and along a direction whose unit
\* vector is not on the grid; one of a different size
PairLayerA == [ name |-> <<"a">>, width |-> 100, height |-> 100,
                scale |-> <<100, 100>>, position |-> <<400 * S, 500 * S>>,
                rotation |-> 0, ok |-> TRUE ]

PairLayersB ==
    { [PairLayerA EXCEPT !.name = <<"b">>, !.position = <<(400 + d[1]) * S, (500 + d[2]) * S>>,
                         !.width = w]
        : d \in { <<60, 0>>, <<0, -60>>, <<30, 40>>, <<-30, -40>>, <<57, 23>> },
          w \in { 100, 80 } }

\* velocities of the two bodies at the call, in 1/S
PairVelocitiesA == { <<0, 0>>, <<100 * S, 0>>, <<50 * S, -70 * S>> }

PairVelocitiesB == { <<0, 0>>, <<-100 * S, 0>>, <<-30 * S, -80 * S>>, <<120 * S, 90 * S>> }

\* settings the bodies are created with: restitution 1 or 0.5
PairSettings == { [RunSettings EXCEPT !.bounce = C],
                  [RunSettings EXCEPT !.bounce = 5000, !.material = "metal"] }

\* two bodies, created and moving
CollisionInit ==
    /\ settings \in PairSettings
    /\ \E lb \in PairLayersB, vA \in PairVelocitiesA, vB \in PairVelocitiesB :
          heap = << [createBody(PairLayerA, settings) EXCEPT !.vx = vA[1], !.vy = vA[2]],
                    [createBody(lb, settings) EXCEPT !.vx = vB[1], !.vy = vB[2]] >>
    /\ bodies = <<1, 2>>
    /\ joints = <<>>
    /\ simulationData = <<>>
    /\ isSimulating = FALSE
    /\ pc = "idle"
    /\ frame = 0
    /\ bi = 0
    /\ ret = FALSE
    /\ lastOp = "init"
    /\ lastArgs = <<>>
    /\ pre = <<>>
    /\ ops = 0
    /\ rng = NoRng
    /\ clock = 0
    /\ contactData = <<>>
    /\ history = NoHistory
    /\ controls = NoControls
    /\ tasks = NoTasks

\* a call of Physics.resolveCollision(bodyA, bodyB); pre keeps the pair
\* as it was before the call
resolveCollisionCall ==
    /\ lastOp = "init"
    /\ lastOp' = "resolveCollision"
    /\ pre' = heap
    /\ \E r \in { resolveCollision(heap[1], heap[2]) } : heap' = <<r[1], r[2]>>
    /\ ops' = ops + 1
    /\ UNCHANGED <<settings, bodies, joints, simulationData, isSimulating, pc, frame,
                   bi, ret, lastArgs>>
    /\ UNCHANGED evars
    /\ UNCHANGED uvars

CollisionNext == resolveCollisionCall

CollisionSpec == CollisionInit /\ [][CollisionNext]_vars

\* before the call: equal masses, restitution 1, overlapping, approaching
elasticApproach ==
    /\ lastOp = "resolveCollision"
    /\ pre[1].mass = pre[2].mass
    /\ pre[1].restitution = C
    /\ pre[2].restitution = C
    /\ checkBodyCollision(pre[1], pre[2])
    /\ velAlongNormal(pre[1], pre[2]) < 0

\* C10: for two overlapping bodies of equal mass and restitution 1 that
\* approach each other, resolveCollision keeps the total momentum and
\* leaves a non-negative relative velocity along the normal; for bodies
\* that are separating it leaves both velocities as they were.
C10_ElasticCollision ==
    /\ elasticApproach =>
          /\ pre[1].mass * pre[1].vx + pre[2].mass * pre[2].vx
                = heap[1].mass * heap[1].vx + heap[2].mass * heap[2].vx
          /\ pre[1].mass * pre[1].vy + pre[2].mass * pre[2].vy
                = heap[1].mass * heap[1].vy + heap[2].mass * heap[2].vy
          /\ velAlongNormal(heap[1], heap[2]) >= 0
    /\ (lastOp = "resolveCollision" /\ velAlongNormal(pre[1], pre[2]) > 0) =>
          /\ heap[1].vx = pre[1].vx /\ heap[1].vy = pre[1].vy
          /\ heap[2].vx = pre[2].vx /\ heap[2].vy = pre[2].vy

\* an elastic approach along a direction off the axes has been resolved
\* and changed both velocities
C10_Witness ==
    /\ elasticApproach
    /\ pre[1].px # pre[2].px
    /\ pre[1].py # pre[2].py
    /\ <<heap[1].vx, heap[1].vy>> # <<pre[1].vx, pre[1].vy>>
    /\ <<heap[2].vx, heap[2].vy>> # <<pre[2].vx, pre[2].vy>>

---------------------------------------------------------------------------
(* Joints.updateDistanceJoint of the Enhanced engine, applied again and    *)
(* again to two bodies at rest, with nothing else acting on them.          *)

MaxUpdates == 4

\* where body B stands relative to body A, in px: at distance 150 along the
\* axes and along the 3-4-5 and 7-24-25 directions, and at distance 50
JointOffsets ==
    { <<150, 0>>, <<-150, 0>>, <<0, 150>>, <<0, -150>>,
      <<90, 120>>, <<-90, 120>>, <<90, -120>>, <<-90, -120>>,
      <<120, 90>>, <<-120, 90>>, <<42, 144>>, <<144, -42>>, <<30, 40>> }

JointLayerA == [ name |-> <<"a">>, width |-> 100, height |-> 100,
                 scale |-> <<100, 100>>, position |-> <<400 * S, 500 * S>>,
                 rotation |-> 0, ok |-> TRUE ]

JointLayersB ==
    { [JointLayerA EXCEPT !.name = <<"b">>,
                          !.position = <<(400 + d[1]) * S, (500 + d[2]) * S>>]
        : d \in JointOffsets }

\* options of createJoint: target distance 100, stiffness 1 or 0.5
JointOptions ==
    { [EnhNoOptions EXCEPT !.targetDistance = 100 * S, !.stiffness = k] : k \in { C, 5000 } }

\* Utils.distance between the two bodies of a pair
pairDistance(pair) == Hypot(pair[2].px - pair[1].px, pair[2].py - pair[1].py)

\* two bodies and one distance joint between them; history keeps the pair
\* as it was created
DistanceInit ==
    /\ settings = DEFAULT_SETTINGS
    /\ \E lb \in JointLayersB, tb \in BodyTypeInputs, o \in JointOptions :
          /\ heap = << Enh_createBody(JointLayerA, settings, "dynamic"),
                       Enh_createBody(lb, settings, tb) >>
          /\ joints = << Enh_createJoint(1, 1, 2, heap[1], heap[2], "distance", o) >>
    /\ history = [ runs |-> 0, start |-> heap ]
    /\ controls = NoControls
    /\ tasks = NoTasks
    /\ bodies = <<1, 2>>
    /\ simulationData = <<>>
    /\ contactData = <<>>
    /\ isSimulating = FALSE
    /\ pc = "idle"
    /\ frame = 0
    /\ bi = 0
    /\ ret = FALSE
    /\ lastOp = "createJoint"
    /\ lastArgs = <<>>
    /\ pre = heap
    /\ ops = 0
    /\ rng = NoRng
    /\ clock = 0

\* one call of Joints.updateJoints; pre keeps the pair before the call
updateJointsCall ==
    /\ frame < MaxUpdates
    /\ frame' = frame + 1
    /\ lastOp' = "updateJoints"
    /\ pre' = heap
    /\ \E hp \in { Enh_updateJoints(heap, joints) } : heap' = hp
    /\ UNCHANGED <<settings, bodies, joints, simulationData, isSimulating, pc, bi, ret,
                   lastArgs, ops, rng, clock, contactData, history>>
    /\ UNCHANGED uvars

DistanceNext == updateJointsCall

DistanceSpec == DistanceInit /\ [][DistanceNext]_vars

\* two dynamic bodies at distance 150, target distance 100, stiffness 1
pullFrom150 ==
    /\ heap[1].type = "dynamic"
    /\ heap[2].type = "dynamic"
    /\ joints[1].stiffness = C
    /\ joints[1].targetDistance = 100 * S
    /\ pairDistance(history.start) = 150 * S

\* C11: two dynamic bodies at rest at distance 150, joined by a distance
\* joint of stiffness 1 and target distance 100: every update leaves the
\* distance no larger than before, between 100 and 150, and no farther
\* from 100 than before.
C11_DistanceJointConverges ==
    pullFrom150 =>
       /\ pairDistance(heap) <= pairDistance(pre)
       /\ pairDistance(heap) <= 150 * S
       /\ pairDistance(heap) >= 100 * S
       /\ Abs(pairDistance(heap) - 100 * S) <= Abs(pairDistance(pre) - 100 * S)
       /\ (lastOp = "updateJoints" /\ pairDistance(pre) # 100 * S)
             => Abs(pairDistance(heap) - 100 * S) < Abs(pairDistance(pre) - 100 * S)

\* the joint has pulled such a pair, off the axes, from 150 to 100 and a
\* further update has left it there
C11_Witness ==
    /\ pullFrom150
    /\ frame >= 2
    /\ history.start[1].px # history.start[2].px
    /\ history.start[1].py # history.start[2].py
    /\ pairDistance(heap) = 100 * S
    /\ pairDistance(pre) = 100 * S

---------------------------------------------------------------------------
(* Physics.createBody of physics.js on layers of any size and scale and    *)
(* on settings objects with or without the keys material, bounce, friction *)

\* the minimum mass of createBody, 0.1, in 1/S
minimumMass == 10

\* layers: width and height in px, scale in percent; zero area, negative
\* scale on one axis and on both
BodyLayers ==
    { [ name |-> <<"x">>, width |-> w, height |-> h, scale |-> sc,
        position |-> <<400 * S, 500 * S>>, rotation |-> 0, ok |-> TRUE ]
        : w \in { 0, 1, 100, 250 }, h \in { 0, 100 },
          sc \in { <<100, 100>>, <<-100, 100>>, <<-50, -200>>, <<0, 100>>, <<1, 1>> } }

\* the keys of Physics.materials
presetNames == { "rubber", "metal", "wood", "ice", "concrete", "default" }

\* material names a settings object can carry; "none" stands for a
\* settings object without the key
MaterialInputs == presetNames \cup { "nonexistent", "none" }

\* settings.bounce and settings.friction in 1/C; -1 stands for a settings
\* object without the key
BounceInputs == { -1, 0, 5000 }

FrictionInputs == { -1, 4000 }

\* the settings object with the keys that are given
settingsWith(m, b, f) ==
    [ k \in ({ "material" : x \in { m } \ { "none" } }
             \cup { "bounce" : x \in { b } \ { -1 } }
             \cup { "friction" : x \in { f } \ { -1 } }) |->
        CASE k = "material" -> m
          [] k = "bounce"   -> b
          [] k = "friction" -> f ]

\* a layer and a settings object
CreateBodyInit ==
    /\ \E m \in MaterialInputs, b \in BounceInputs, f \in FrictionInputs :
          settings = settingsWith(m, b, f)
    /\ \E layer \in BodyLayers : lastArgs = <<layer>>
    /\ heap = <<>>
    /\ bodies = <<>>
    /\ joints = <<>>
    /\ simulationData = <<>>
    /\ contactData = <<>>
    /\ isSimulating = FALSE
    /\ pc = "idle"
    /\ frame = 0
    /\ bi = 0
    /\ ret = FALSE
    /\ lastOp = "init"
    /\ pre = <<>>
    /\ ops = 0
    /\ rng = NoRng
    /\ clock = 0
    /\ history = NoHistory
    /\ controls = NoControls
    /\ tasks = NoTasks

\* a call of Physics.createBody(layer, settings); the body it returns is
\* heap[1]
createBodyCall ==
    /\ lastOp = "init"
    /\ lastOp' = "createBody"
    /\ \E body \in { createBody(lastArgs[1], settings) } : heap' = <<body>>
    /\ ret' = TRUE
    /\ ops' = ops + 1
    /\ UNCHANGED <<settings, bodies, joints, simulationData, isSimulating, pc, frame,
                   bi, lastArgs, pre>>
    /\ UNCHANGED evars
    /\ UNCHANGED uvars

CreateBodyNext == createBodyCall

CreateBodySpec == CreateBodyInit /\ [][CreateBodyNext]_vars

\* area x density of the layer of the call, in 1/S
areaTimesDensity ==
    MulDiv(RoundDiv(MulDiv(lastArgs[1].width * lastArgs[1].scale[1],
                           lastArgs[1].height * lastArgs[1].scale[2], S), 10000),
           materials(materialName(settings)).density, S)

\* C12: the mass createBody assigns is positive, at least the minimum mass
\* 0.1, and equal to max(area x density, 0.1), for every width, height,
\* scale and material.
C12_MassAtLeastMinimum ==
    lastOp = "createBody" =>
       /\ heap[1].mass > 0
       /\ heap[1].mass >= minimumMass
       /\ heap[1].mass = Max(areaTimesDensity, minimumMass)

\* the preset the material name of the call resolves to
resolvedPreset ==
    IF materialName(settings) \in presetNames
    THEN materials(materialName(settings))
    ELSE materials("default")

---------------------------------------------------------------------------
(* One run of the Enhanced engine over two bodies of any types, touching   *)
(* or apart, with or without a joint of any type between them.             *)

\* where the upper body stands: overlapping the lower one, or well above it
StaticLayersA == { EnhLayerA, [EnhLayerA EXCEPT !.position = <<430 * S, 700 * S>>] }

\* the types of the two bodies
StaticTypePairs == { <<"static", "dynamic">>, <<"dynamic", "static">>,
                     <<"static", "static">>, <<"dynamic", "dynamic">> }

\* the joint, if any: its type and the order of its bodies
StaticJointInputs ==
    { <<>> } \cup
    { <<a, 3 - a, type>> : a \in { 1, 2 }, type \in { "distance", "spring", "pivot", "weld" } }

\* the engine after addBodiesFromSelection and addJoint
StaticInit ==
    /\ settings \in { [s EXCEPT !.duration = 10] : s \in EnhSettingsChoices }
    /\ \E la \in StaticLayersA, tp \in StaticTypePairs, j \in StaticJointInputs :
          /\ heap = << Enh_createBody(la, settings, tp[1]),
                       Enh_createBody(EnhLayerB, settings, tp[2]) >>
          /\ joints = IF j = <<>> THEN <<>>
                      ELSE << Enh_createJoint(1, j[1], j[2], heap[j[1]], heap[j[2]],
                                              j[3], EnhNoOptions) >>
    /\ bodies = <<1, 2>>
    /\ simulationData = <<>>
    /\ contactData = <<>>
    /\ isSimulating = FALSE
    /\ pc = "idle"
    /\ frame = 0
    /\ bi = 0
    /\ ret = TRUE
    /\ lastOp = "addJoint"
    /\ lastArgs = <<>>
    /\ pre = [bodies |-> 2, joints |-> 0, isSimulating |-> FALSE, hasData |-> FALSE]
    /\ ops = 2
    /\ rng = NoRng
    /\ clock = 0
    /\ history = EnhNoHistory
    /\ controls = NoControls
    /\ tasks = NoTasks

StaticNext ==
    \/ /\ lastOp = "addJoint"
       /\ \E stream \in Streams, now \in Clocks : Enh_simulate(stream, now)
    \/ Enh_simulateFrame

StaticSpec == StaticInit /\ [][StaticNext]_vars

\* body i as it was when the run started
registered(i) == history.start.bodies[i]

\* C13: in every frame of a run a static body has the position, rotation
\* and velocity it was registered with, in the body itself and in every
\* sample recorded for it.
C13_StaticNeverMoves ==
    history.runs > 0 =>
       \A i \in DOMAIN bodies :
          heap[bodies[i]].type = "static" =>
             /\ heap[bodies[i]].px = registered(i).px
             /\ heap[bodies[i]].py = registered(i).py
             /\ heap[bodies[i]].rotation = registered(i).rotation
             /\ heap[bodies[i]].vx = registered(i).vx
             /\ heap[bodies[i]].vy = registered(i).vy
             /\ heap[bodies[i]].angularVelocity = registered(i).angularVelocity
             /\ \A f \in DOMAIN simulationData[i] :
                   /\ simulationData[i][f].position = <<registered(i).px, registered(i).py>>
                   /\ simulationData[i][f].rotation = registered(i).rotation

\* a run has finished in which a dynamic body, overlapping a static one
\* and joined to it, was moved
C13_Witness ==
    /\ lastOp = "simulate"
    /\ pc = "idle"
    /\ ret = TRUE
    /\ Len(joints) = 1
    /\ joints[1].type = "pivot"
    /\ heap[1].type = "dynamic"
    /\ heap[2].type = "static"
    /\ settings.enableInterBodyCollision
    /\ registered(1).py = 900 * S
    /\ heap[1].contactCount > 0
    /\ <<heap[1].px, heap[1].py>> # <<registered(1).px, registered(1).py>>

---------------------------------------------------------------------------
(* The panel of ui.js: the Add Bodies, Auto Joints, Run Simulation, Bake   *)
(* and Reset buttons and the task Run Simulation defers with               *)
(* app.scheduleTask.                                                       *)
(* Scripts run on one thread: a button event is handled only between       *)
(* tasks, and a task runs simulate() and onSimulationComplete() to the end *)

\* a button event can be handled: no script is running
panelIdle == pc = "idle" /\ ~tasks.running

\* addBodiesBtn.onClick
addBodiesBtn_onClick ==
    /\ panelIdle
    /\ \E hasComp \in BOOLEAN, sel \in Selections : addBodiesFromSelection(hasComp, sel)
    /\ controls' = [ simulateBtn |-> ret', bakeBtn |-> FALSE ]
    /\ UNCHANGED tasks

\* autoJointsBtn.onClick
autoJointsBtn_onClick ==
    /\ panelIdle
    /\ autoCreateJoints
    /\ UNCHANGED uvars

\* simulateBtn.onClick: a disabled button raises no event
simulateBtn_onClick ==
    /\ panelIdle
    /\ controls.simulateBtn
    /\ controls' = [controls EXCEPT !.simulateBtn = FALSE]
    /\ tasks' = [tasks EXCEPT !.pending = @ + 1]
    /\ UNCHANGED mvars
    /\ UNCHANGED evars

\* bakeBtn.onClick
bakeBtn_onClick ==
    /\ panelIdle
    /\ controls.bakeBtn
    /\ \E hasComp \in BOOLEAN : bake(hasComp)
    /\ UNCHANGED uvars

\* resetBtn.onClick
resetBtn_onClick ==
    /\ panelIdle
    /\ reset
    /\ controls' = [ simulateBtn |-> FALSE, bakeBtn |-> FALSE ]
    /\ UNCHANGED tasks

\* a scheduled task starts: MiniNewton.simulate() is entered
taskStart ==
    /\ panelIdle
    /\ tasks.pending > 0
    /\ simulate
    /\ tasks' = [tasks EXCEPT !.running = TRUE]
    /\ UNCHANGED controls

\* UI.onSimulationComplete, the end of the task
onSimulationComplete ==
    /\ tasks.running
    /\ pc = "idle"
    /\ controls' = [ simulateBtn |-> TRUE,
                     bakeBtn     |-> IF getStatus.hasData THEN TRUE ELSE controls.bakeBtn ]
    /\ tasks' = [ pending |-> tasks.pending - 1, running |-> FALSE ]
    /\ UNCHANGED mvars
    /\ UNCHANGED evars

PanelNext ==
    \/ addBodiesBtn_onClick
    \/ autoJointsBtn_onClick
    \/ simulateBtn_onClick
    \/ bakeBtn_onClick
    \/ resetBtn_onClick
    \/ taskStart
    \/ simulateBody
    \/ simulateCollisions
    \/ simulateJoints
    \/ onSimulationComplete

PanelSpec == MInit /\ [][PanelNext]_vars

\* C14: at most one deferred simulate task is outstanding (scheduled and
\* not yet completed) at any time.
C14_OneRunAtATime == tasks.pending <= 1

---------------------------------------------------------------------------
(* Physics.updateSleepState of physics.js, called again and again on one   *)
(* body whose velocity nothing else changes                                *)

MaxSleepCalls == 3

\* velocity [vx, vy] in 1/S px/s: at rest, slow, at the threshold 5, just
\* below it, and fast
SleepVelocities == { <<0, 0>>, <<100, 100>>, <<300, 400>>, <<499, 0>>, <<0, -600>> }

\* angularVelocity in 1/S: below the threshold 0.1, at it, above it
SleepAngularVelocities == { 0, 9, 10, -50 }

\* sleepTimer in 1/C s and isSleeping of the body before the first call: a
\* body is asleep only with a timer past the timeout
SleepStates == { <<0, FALSE>>, <<5000, FALSE>>, <<9000, FALSE>>, <<10500, TRUE>> }

\* deltaTime in 1/C s: a frame at 30 and at 2 frames per second, exactly
\* the timeout, and 2 s
DeltaTimes == { 333, 5000, C, 2 * C }

SleepInit ==
    /\ settings = RunSettings
    /\ \E v \in SleepVelocities, w \in SleepAngularVelocities, s \in SleepStates :
          heap = << [createBody(LayerX, settings) EXCEPT
                        !.vx = v[1], !.vy = v[2], !.angularVelocity = w,
                        !.sleepTimer = s[1], !.isSleeping = s[2]] >>
    /\ \E dt \in DeltaTimes : lastArgs = <<dt>>
    /\ bodies = <<1>>
    /\ joints = <<>>
    /\ simulationData = <<>>
    /\ contactData = <<>>
    /\ isSimulating = FALSE
    /\ pc = "idle"
    /\ frame = 0
    /\ bi = 0
    /\ ret = FALSE
    /\ lastOp = "init"
    /\ pre = heap
    /\ ops = 0
    /\ rng = NoRng
    /\ clock = 0
    /\ history = NoHistory
    /\ controls = NoControls
    /\ tasks = NoTasks

\* a call of Physics.updateSleepState(body, deltaTime); pre keeps the body
\* as it was before the call
updateSleepStateCall ==
    /\ ops < MaxSleepCalls
    /\ ops' = ops + 1
    /\ lastOp' = "updateSleepState"
    /\ pre' = heap
    /\ \E body \in { updateSleepState(heap[1], lastArgs[1]) } : heap' = <<body>>
    /\ UNCHANGED <<settings, bodies, joints, simulationData, isSimulating, pc, frame,
                   bi, ret, lastArgs>>
    /\ UNCHANGED evars
    /\ UNCHANGED uvars

SleepNext == updateSleepStateCall

SleepSpec == SleepInit /\ [][SleepNext]_vars

\* the body was below both thresholds before the call
wasSlow ==
    /\ SpeedBelow(pre[1].vx, pre[1].vy, 5 * S)
    /\ Abs(pre[1].angularVelocity) * 10 < S

\* C16: a call of updateSleepState on a body below both thresholds adds
\* deltaTime to sleepTimer and leaves the body asleep exactly when the
\* timer is past 1.0 s; a body the call leaves asleep has velocity [0, 0]
\* and angularVelocity 0.
C16_SleepAfterTimeout ==
    lastOp = "updateSleepState" =>
       /\ wasSlow =>
             /\ heap[1].sleepTimer = pre[1].sleepTimer + lastArgs[1]
             /\ heap[1].isSleeping = (heap[1].sleepTimer > C)
       /\ heap[1].isSleeping =>
             /\ heap[1].vx = 0
             /\ heap[1].vy = 0
             /\ heap[1].angularVelocity = 0

\* one call with deltaTime 2 s has put a slow, moving body with a fresh
\* timer to sleep
C16_Witness ==
    /\ lastOp = "updateSleepState"
    /\ ops = 1
    /\ lastArgs[1] = 2 * C
    /\ wasSlow
    /\ pre[1].sleepTimer = 0
    /\ pre[1].vx # 0
    /\ ~pre[1].isSleeping
    /\ heap[1].isSleeping
    /\ heap[1].vx = 0

---------------------------------------------------------------------------
(* Runs of the modular engine with a spring or weld joint created between  *)
(* two runs, when a body of the first run has fallen asleep.               *)

\* the joints created between the runs: a weld joint, and a soft spring
\* (springConstant 1) with a rest length of 250 px
WakeJointInputs ==
    { <<"weld", NoOptions>>,
      <<"spring", [ targetDistance |-> 0, springConstant |-> 1, restLength |-> 250 * S ]>> }

WakeNext ==
    \/ /\ lastOp = "init"
       /\ addBodiesFromSelection(TRUE, <<LayerX, LayerY>>)
       /\ UNCHANGED uvars
    \/ /\ lastOp = "simulate"
       /\ \E j \in WakeJointInputs : createJoint(0, 1, j[1], j[2])
       /\ UNCHANGED uvars
    \/ /\ lastOp \in { "addBodiesFromSelection", "createJoint" }
       /\ simulate
       /\ UNCHANGED uvars
    \/ simulateBody
    \/ simulateCollisions
    \/ simulateJoints

WakeSpec == MInit /\ [][WakeNext]_vars

\* the body moves at or above a sleep threshold
aboveThreshold(body) ==
    \/ ~SpeedBelow(body.vx, body.vy, 5 * S)
    \/ Abs(body.angularVelocity) * 10 >= S

\* C18: with enableSleeping on, once the bodies of a frame have been
\* integrated, a body that moves at or above a sleep threshold is awake
\* with sleepTimer 0; a sleeping body a joint has pushed above the
\* threshold is awake after the body loop of the following frame.
C18_FastBodyAwake ==
    (settings.enableSleeping /\ pc \in { "collide", "joints" }) =>
       \A i \in DOMAIN bodies :
          aboveThreshold(heap[bodies[i]]) =>
             /\ ~heap[bodies[i]].isSleeping
             /\ heap[bodies[i]].sleepTimer = 0

---------------------------------------------------------------------------
(* Physics.resolveBodyCollisions of physics.js, pair by pair: frame holds  *)
(* the loop variable i and bi the loop variable j (both 0-based, as in     *)
(* the code), lastArgs the pairs the loop body has run for (history) and   *)
(* pre the bodies as they were before the last pair (history).             *)

\* the bodies of the call: a at (400, 500), b beside it or away from it,
\* c over b only or over a and b; all 100 x 100
PairsLayers ==
    { << PairLayerA,
         [PairLayerA EXCEPT !.name = <<"b">>, !.position = <<bx * S, 500 * S>>],
         [PairLayerA EXCEPT !.name = <<"c">>, !.position = <<c[1] * S, c[2] * S>>] >>
        : bx \in { 460, 600 }, c \in { <<520, 500>>, <<430, 540>> } }

\* what the frame has left of a body: moving, slow with a running timer,
\* or asleep (updateSleepState has zeroed its velocity)
PairsBodyStates ==
    { [ vx |-> -20 * S, vy |-> 10 * S, sleepTimer |-> 0,    isSleeping |-> FALSE ],
      [ vx |-> 2 * S,   vy |-> 0,      sleepTimer |-> 5000, isSleeping |-> FALSE ],
      [ vx |-> 0,       vy |-> 0,      sleepTimer |-> 10333, isSleeping |-> TRUE ] }

\* resolveBodyCollisions(bodies) has been entered: i = 0, j = 1
PairsInit ==
    /\ settings = RunSettings
    /\ \E ls \in PairsLayers, st \in [ 1..3 -> PairsBodyStates ] :
          heap = [ k \in 1..3 |->
                     [createBody(ls[k], settings) EXCEPT
                         !.vx = st[k].vx, !.vy = st[k].vy,
                         !.sleepTimer = st[k].sleepTimer,
                         !.isSleeping = st[k].isSleeping] ]
    /\ bodies \in { <<1, 2>>, <<1, 2, 3>> }
    /\ joints = <<>>
    /\ simulationData = <<>>
    /\ isSimulating = FALSE
    /\ pc = "pairs"
    /\ frame = 0
    /\ bi = 1
    /\ ret = FALSE
    /\ lastOp = "init"
    /\ lastArgs = <<>>
    /\ pre = heap
    /\ ops = 0
    /\ rng = NoRng
    /\ clock = 0
    /\ contactData = <<>>
    /\ history = [ runs |-> 0, start |-> heap ]
    /\ controls = NoControls
    /\ tasks = NoTasks

\* the body of the inner loop for the pair (i, j)
pairBody ==
    /\ pc = "pairs"
    /\ frame < Len(bodies)
    /\ bi < Len(bodies)
    /\ \E bodyA \in { heap[bodies[frame + 1]] }, bodyB \in { heap[bodies[bi + 1]] } :
          IF bodyA.isSleeping /\ bodyB.isSleeping
          THEN heap' = heap
          ELSE IF checkBodyCollision(bodyA, bodyB)
          THEN \E r \in { resolveCollision(wakeBody(bodyA), wakeBody(bodyB)) } :
                  heap' = [heap EXCEPT ![bodies[frame + 1]] = r[1],
                                       ![bodies[bi + 1]] = r[2]]
          ELSE heap' = heap
    /\ pre' = heap
    /\ lastOp' = "pair"
    /\ lastArgs' = Append(lastArgs, <<frame, bi>>)
    /\ bi' = bi + 1
    /\ UNCHANGED <<settings, bodies, joints, simulationData, isSimulating, pc, frame,
                   ret, ops>>
    /\ UNCHANGED evars
    /\ UNCHANGED uvars

\* the inner loop ends: i++, j = i + 1
nextOuter ==
    /\ pc = "pairs"
    /\ frame < Len(bodies)
    /\ bi >= Len(bodies)
    /\ frame' = frame + 1
    /\ bi' = frame + 2
    /\ lastOp' = "i++"
    /\ UNCHANGED <<settings, heap, bodies, joints, simulationData, isSimulating, pc,
                   ret, lastArgs, pre, ops>>
    /\ UNCHANGED evars
    /\ UNCHANGED uvars

\* the outer loop ends: resolveBodyCollisions returns
pairsReturn ==
    /\ pc = "pairs"
    /\ frame >= Len(bodies)
    /\ pc' = "idle"
    /\ lastOp' = "resolveBodyCollisions"
    /\ ops' = ops + 1
    /\ UNCHANGED <<settings, heap, bodies, joints, simulationData, isSimulating, frame,
                   bi, ret, lastArgs, pre>>
    /\ UNCHANGED evars
    /\ UNCHANGED uvars

PairsNext == pairBody \/ nextOuter \/ pairsReturn

PairsSpec == PairsInit /\ [][PairsNext]_vars

\* the unordered pairs of a call, 0-based
allPairs == { <<a, b>> \in (0..(Len(bodies) - 1)) \X (0..(Len(bodies) - 1)) : a < b }

\* the pair the loop body last ran for, as the two bodies were before
lastPairBefore == << pre[bodies[lastArgs[Len(lastArgs)][1] + 1]],
                     pre[bodies[lastArgs[Len(lastArgs)][2] + 1]] >>

\* and as they are after
lastPairAfter == << heap[bodies[lastArgs[Len(lastArgs)][1] + 1]],
                    heap[bodies[lastArgs[Len(lastArgs)][2] + 1]] >>

\* C19: resolveBodyCollisions runs its loop body once for every pair
\* i < j and for nothing else; a pair of two sleeping bodies is left as
\* it is; after the loop body of a pair that is not skipped and whose
\* boxes overlap, both bodies have isSleeping = false and sleepTimer = 0;
\* the pairwise run ends in the state resolveBodyCollisions computes.
C19_PairsVisitedOnceAndWoken ==
    /\ \A k \in DOMAIN lastArgs : lastArgs[k] \in allPairs
    /\ \A k, l \in DOMAIN lastArgs : lastArgs[k] = lastArgs[l] => k = l
    /\ pc = "idle" =>
          /\ { lastArgs[k] : k \in DOMAIN lastArgs } = allPairs
          /\ heap = resolveBodyCollisions(history.start, bodies)
    /\ lastOp = "pair" =>
          /\ (lastPairBefore[1].isSleeping /\ lastPairBefore[2].isSleeping)
                => heap = pre
          /\ (/\ ~(lastPairBefore[1].isSleeping /\ lastPairBefore[2].isSleeping)
              /\ checkBodyCollision(lastPairBefore[1], lastPairBefore[2]))
                => \A k \in 1..2 : /\ ~lastPairAfter[k].isSleeping
                                   /\ lastPairAfter[k].sleepTimer = 0

\* the last pair of three bodies: a sleeping body and a slow one with a
\* running timer overlap, and both are awake with the timer at 0
C19_Witness ==
    /\ lastOp = "pair"
    /\ lastArgs = << <<0, 1>>, <<0, 2>>, <<1, 2>> >>
    /\ lastPairBefore[1].isSleeping
    /\ lastPairBefore[2].sleepTimer > 0
    /\ ~lastPairBefore[2].isSleeping
    /\ checkBodyCollision(lastPairBefore[1], lastPairBefore[2])
    /\ ~lastPairAfter[1].isSleeping
    /\ lastPairAfter[1].sleepTimer = 0
    /\ lastPairAfter[2].sleepTimer = 0

---------------------------------------------------------------------------
(* The Final engine: MiniNewton of MiniNewton_Final.jsx.  heap holds the   *)
(* body objects, simulationData[i] the simulationResults of body i, frame  *)
(* the loop variable of simulate() and bi the loop variable of             *)
(* simulateFrame (1-based); history.start keeps the bodies as they were    *)
(* when the current frame began (history).  A number of the code can be    *)
(* NaN (0 / 0): the field nan of a body names the components that are NaN, *)
(* and the fixed-point value of such a component is not used.              *)

\* MiniNewton.settings; duration in 1/C s: 0.1 s at 30 fps are 3 frames
Fin_settings == [ gravity |-> 980 * S, bounce |-> 8000, floorY |-> 1000 * S,
                  duration |-> 1000, frameRate |-> 30, damping |-> 9900,
                  friction |-> 3000, fixedRotation |-> FALSE, gravityScale |-> S ]

\* MiniNewton.calculateMass, in 1/S
Fin_calculateMass(layer) ==
    With(RoundDiv(RoundDiv(layer.width * layer.height * layer.scale[1], 100)
                     * layer.scale[2], 100),
         LAMBDA scaledArea : Max(S, RoundDiv(scaledArea * S, 10000)))

\* the body MiniNewton.addBody pushes
Fin_addBody(layer, bodyType, st) ==
    [ id              |-> Len(bodies),
      type            |-> bodyType,
      px              |-> layer.position[1],
      py              |-> layer.position[2],
      vx              |-> 0,
      vy              |-> 0,
      ax              |-> 0,
      ay              |-> 0,
      nan             |-> {},
      rotation        |-> layer.rotation,
      angularVelocity |-> 0,
      mass            |-> Fin_calculateMass(layer),
      bounce          |-> st.bounce,
      friction        |-> st.friction,
      width           |-> layer.width,
      height          |-> layer.height,
      fixedRotation   |-> st.fixedRotation,
      gravityScale    |-> st.gravityScale ]

\* the joint MiniNewton.createJoint pushes; stiffness in 1/C
Fin_createJoint(bodyAIndex, bodyBIndex, type) ==
    [ id         |-> Len(joints),
      bodyA      |-> bodies[bodyAIndex + 1],
      bodyB      |-> bodies[bodyBIndex + 1],
      type       |-> type,
      stiffness  |-> C,
      restLength |-> Hypot(heap[bodies[bodyAIndex + 1]].px - heap[bodies[bodyBIndex + 1]].px,
                           heap[bodies[bodyAIndex + 1]].py - heap[bodies[bodyBIndex + 1]].py) ]

\* a position of the body is NaN
Fin_positionIsNaN(body) == body.nan \cap { "px", "py" } # {}

RECURSIVE Fin_magnetismFrom(_, _, _, _)
\* the magnetism loop of applySpecialEffects from body k on: what it adds
\* to body.acceleration, in 1/S, and whether that is NaN.  A distance that
\* is NaN is not below 200; at distance 0 the direction is 0 / 0.
Fin_magnetismFrom(body, hp, bs, k) ==
    IF k > Len(bs) THEN [ ax |-> 0, ay |-> 0, nan |-> FALSE ]
    ELSE With(Fin_magnetismFrom(body, hp, bs, k + 1), LAMBDA rest :
         With(hp[bs[k]], LAMBDA other :
            IF other.id = body.id \/ Fin_positionIsNaN(other) \/ Fin_positionIsNaN(body)
            THEN rest
            ELSE With(Hypot(other.px - body.px, other.py - body.py), LAMBDA distance :
                 IF distance >= 200 * S THEN rest
                 ELSE IF distance = 0 THEN [rest EXCEPT !.nan = TRUE]
                 ELSE With(RoundDiv(body.magnetism.strength * S * S * S, distance * distance),
                           LAMBDA force :
                      With(IF body.magnetism.type = "Attract" THEN 1 ELSE -1, LAMBDA sgn :
                           [rest EXCEPT
                              !.ax = @ + sgn * MulDiv(other.px - body.px, force, distance),
                              !.ay = @ + sgn * MulDiv(other.py - body.py, force, distance)])))))

\* MiniNewton.applySpecialEffects
Fin_applySpecialEffects(body, hp, bs, st) ==
    With(IF "magnetism" \in DOMAIN body /\ body.magnetism.enabled
         THEN With(Fin_magnetismFrom(body, hp, bs, 1), LAMBDA m :
                   [body EXCEPT !.ax = @ + m.ax,
                                !.ay = @ + m.ay,
                                !.nan = IF m.nan THEN @ \cup { "ax", "ay" } ELSE @])
         ELSE body, LAMBDA b1 :
         IF "waterlike" \in DOMAIN b1 /\ b1.waterlike.enabled
         THEN [b1 EXCEPT !.ay = @ - MulDiv(st.gravity, b1.waterlike.buoyancy, C),
                         !.vx = MulDiv(@, 95, 100),
                         !.vy = MulDiv(@, 95, 100)]
         ELSE b1)

\* the body of the loop of MiniNewton.simulateFrame for the body hp[ref]
Fin_simulateFrame(ref, hp, bs, st) ==
    IF hp[ref].type # "dynamic" THEN hp[ref]
    ELSE With([hp[ref] EXCEPT !.ay = MulDiv(st.gravity, hp[ref].gravityScale, S),
                              !.nan = @ \ { "ay" }], LAMBDA b1 :
         With(Fin_applySpecialEffects(b1, hp, bs, st), LAMBDA b2 :
         With([b2 EXCEPT !.vx = @ + RoundDiv(b2.ax, st.frameRate),
                         !.vy = @ + RoundDiv(b2.ay, st.frameRate),
                         !.nan = @ \cup (IF "ax" \in b2.nan THEN { "vx" } ELSE {})
                                   \cup (IF "ay" \in b2.nan THEN { "vy" } ELSE {})],
              LAMBDA b3 :
         With([b3 EXCEPT !.vx = MulDiv(@, st.damping, C),
                         !.vy = MulDiv(@, st.damping, C)], LAMBDA b4 :
         With([b4 EXCEPT !.px = @ + RoundDiv(b4.vx, st.frameRate),
                         !.py = @ + RoundDiv(b4.vy, st.frameRate),
                         !.nan = @ \cup (IF "vx" \in b4.nan THEN { "px" } ELSE {})
                                   \cup (IF "vy" \in b4.nan THEN { "py" } ELSE {}),
                         !.rotation = IF b4.fixedRotation THEN @
                                      ELSE @ + RoundDiv(b4.angularVelocity, st.frameRate)],
              LAMBDA b5 :
                 IF "py" \notin b5.nan /\ b5.py > st.floorY
                 THEN [b5 EXCEPT !.py = st.floorY,
                                 !.vy = MulDiv(-b5.vy, b5.bounce, C),
                                 !.vx = MulDiv(@, b5.friction, C)]
                 ELSE b5)))))

RECURSIVE Fin_updateJointsFrom(_, _, _)
\* the loop of MiniNewton.updateJoints from joint k on: the heap after.
\* With a position that is NaN, or at distance 0 (nx = 0 / 0), everything
\* the joint adds to the accelerations is NaN.
Fin_updateJointsFrom(hp, js, k) ==
    IF k > Len(js) THEN hp
    ELSE With(hp[js[k].bodyA], LAMBDA bodyA :
         With(hp[js[k].bodyB], LAMBDA bodyB :
         With(bodyB.px - bodyA.px, LAMBDA dx :
         With(bodyB.py - bodyA.py, LAMBDA dy :
            IF js[k].type \notin { "distance", "spring" }
            THEN Fin_updateJointsFrom(hp, js, k + 1)
            ELSE IF \/ Fin_positionIsNaN(bodyA)
                    \/ Fin_positionIsNaN(bodyB)
                    \/ (dx = 0 /\ dy = 0)
            THEN Fin_updateJointsFrom(
                     [hp EXCEPT ![js[k].bodyA].nan = @ \cup { "ax", "ay" },
                                ![js[k].bodyB].nan = @ \cup { "ax", "ay" }],
                     js, k + 1)
            ELSE With(Hypot(dx, dy), LAMBDA distance :
                 With(MulDiv(distance - js[k].restLength, js[k].stiffness, C), LAMBDA force :
                 With(MulDiv(MulDiv(dx, force, distance), S, bodyA.mass), LAMBDA fAx :
                 With(MulDiv(MulDiv(dy, force, distance), S, bodyA.mass), LAMBDA fAy :
                 With(MulDiv(MulDiv(dx, force, distance), S, bodyB.mass), LAMBDA fBx :
                 With(MulDiv(MulDiv(dy, force, distance), S, bodyB.mass), LAMBDA fBy :
                      Fin_updateJointsFrom(
                          [hp EXCEPT ![js[k].bodyA] = [bodyA EXCEPT !.ax = @ + fAx, !.ay = @ + fAy],
                                     ![js[k].bodyB] = [bodyB EXCEPT !.ax = @ - fBx, !.ay = @ - fBy]],
                          js, k + 1)))))))))))

\* MiniNewton.updateJoints
Fin_updateJoints(hp, js) == Fin_updateJointsFrom(hp, js, 1)

\* Math.floor(duration * frameRate)
Fin_frameCount == (settings.duration * settings.frameRate) \div C

\* the script has been loaded
FinalInit ==
    /\ settings = Fin_settings
    /\ heap = <<>>
    /\ bodies = <<>>
    /\ joints = <<>>
    /\ simulationData = <<>>
    /\ isSimulating = FALSE
    /\ pc = "idle"
    /\ frame = 0
    /\ bi = 0
    /\ ret = FALSE
    /\ lastOp = "init"
    /\ lastArgs = <<>>
    /\ pre = <<>>
    /\ ops = 0
    /\ rng = NoRng
    /\ clock = 0
    /\ contactData = <<>>
    /\ history = NoHistory
    /\ controls = NoControls
    /\ tasks = NoTasks

\* MiniNewton.addBody(layer, bodyType): x first, then a second layer: y,
\* 250 px above x, or a layer 20 px above x, or a layer at the position
\* of x
Fin_addBodyCall ==
    /\ pc = "idle"
    /\ lastOp \in { "init", "addBody" }
    /\ Len(bodies) < 2
    /\ \E bodyType \in { "dynamic", "static" },
          layer \in IF Len(bodies) = 0 THEN { LayerX }
                    ELSE { LayerY,
                           [LayerY EXCEPT !.position = <<400 * S, 830 * S>>],
                           [LayerY EXCEPT !.position = LayerX.position] } :
          /\ heap' = Append(heap, Fin_addBody(layer, bodyType, settings))
          /\ lastArgs' = <<bodyType>>
    /\ bodies' = Append(bodies, Len(heap) + 1)
    /\ simulationData' = Append(simulationData, <<>>)
    /\ lastOp' = "addBody"
    /\ ops' = ops + 1
    /\ UNCHANGED <<settings, joints, isSimulating, pc, frame, bi, ret, pre>>
    /\ UNCHANGED evars
    /\ UNCHANGED uvars

\* MiniNewton.createJoint(0, 1, type) from addJointBtn.onClick
Fin_createJointCall ==
    /\ pc = "idle"
    /\ lastOp = "addBody"
    /\ Len(bodies) = 2
    /\ \E type \in { "distance", "pivot" } :
          /\ joints' = Append(joints, Fin_createJoint(0, 1, type))
          /\ lastArgs' = <<type>>
    /\ lastOp' = "createJoint"
    /\ ops' = ops + 1
    /\ UNCHANGED <<settings, heap, bodies, simulationData, isSimulating, pc, frame, bi,
                   ret, pre>>
    /\ UNCHANGED evars
    /\ UNCHANGED uvars

\* body with the field f set to v
Fin_withField(body, f, v) ==
    [ g \in DOMAIN body \cup { f } |-> IF g = f THEN v ELSE body[g] ]

\* simulateBtn.onClick up to the first frame of MiniNewton.simulate(): the
\* magnet and water check boxes give every body its magnetism and
\* waterlike fields; magnet is "" when the box is unchecked
Fin_simulate ==
    /\ pc = "idle"
    /\ lastOp \in { "addBody", "createJoint" }
    /\ Len(bodies) > 0
    /\ \E waterCheck \in BOOLEAN, magnet \in { "", "Attract", "Repel" } :
          /\ heap' = [ k \in DOMAIN heap |->
                         With(IF magnet # ""
                              THEN Fin_withField(heap[k], "magnetism",
                                       [ enabled |-> TRUE, type |-> magnet, strength |-> 500 ])
                              ELSE heap[k], LAMBDA b :
                              IF waterCheck
                              THEN Fin_withField(b, "waterlike",
                                       [ enabled |-> TRUE, buoyancy |-> 8000 ])
                              ELSE b) ]
          /\ lastArgs' = <<waterCheck, magnet>>
    /\ history' = [ runs |-> 0, start |-> heap' ]
    /\ simulationData' = [ k \in DOMAIN bodies |-> <<>> ]
    /\ lastOp' = "simulate"
    /\ ops' = ops + 1
    /\ IF Fin_frameCount > 0
       THEN /\ pc' = "bodies"
            /\ frame' = 0
            /\ bi' = 1
            /\ UNCHANGED ret
       ELSE /\ ret' = TRUE
            /\ UNCHANGED <<pc, frame, bi>>
    /\ UNCHANGED <<settings, bodies, joints, isSimulating, pre, rng, clock, contactData>>
    /\ UNCHANGED uvars

\* one pass of the loop of simulateFrame: body bi is integrated
Fin_simulateBody ==
    /\ pc = "bodies"
    /\ bi <= Len(bodies)
    /\ pre' = heap
    /\ heap' = [heap EXCEPT ![bodies[bi]] = Fin_simulateFrame(bodies[bi], heap, bodies, settings)]
    /\ lastOp' = "simulateFrame"
    /\ lastArgs' = <<bi>>
    /\ bi' = bi + 1
    /\ UNCHANGED <<settings, bodies, joints, simulationData, isSimulating, pc, frame,
                   ret, ops>>
    /\ UNCHANGED evars
    /\ UNCHANGED uvars

\* the end of simulateFrame (updateJoints) and the rest of the frame in
\* simulate(): the results are stored, and the next frame starts or
\* simulate() returns true
Fin_simulateJoints ==
    /\ pc = "bodies"
    /\ bi > Len(bodies)
    /\ pre' = heap
    /\ \E hp \in { Fin_updateJoints(heap, joints) } :
          /\ heap' = hp
          /\ history' = [ runs |-> 0, start |-> hp ]
          /\ simulationData' =
                [ k \in DOMAIN bodies |->
                    Append(simulationData[k],
                           [ x |-> hp[bodies[k]].px, y |-> hp[bodies[k]].py,
                             rotation |-> hp[bodies[k]].rotation, frame |-> frame,
                             nan |-> hp[bodies[k]].nan \cap { "px", "py" } ]) ]
    /\ lastOp' = "updateJoints"
    /\ lastArgs' = <<frame>>
    /\ IF frame + 1 < Fin_frameCount
       THEN /\ frame' = frame + 1
            /\ bi' = 1
            /\ UNCHANGED <<pc, ret>>
       ELSE /\ frame' = 0
            /\ bi' = 0
            /\ pc' = "idle"
            /\ ret' = TRUE
    /\ UNCHANGED <<settings, bodies, joints, isSimulating, ops, rng, clock, contactData>>
    /\ UNCHANGED uvars

FinalNext ==
    \/ Fin_addBodyCall
    \/ Fin_createJointCall
    \/ Fin_simulate
    \/ Fin_simulateBody
    \/ Fin_simulateJoints

FinalSpec == FinalInit /\ [][FinalNext]_vars

\* C20: when the loop of simulateFrame has integrated a body, the
\* acceleration of that body is [0, 0], for every body in every frame.
C20_AccelerationCleared ==
    lastOp = "simulateFrame" =>
       /\ heap[bodies[lastArgs[1]]].ax = 0
       /\ heap[bodies[lastArgs[1]]].ay = 0

---------------------------------------------------------------------------
(* One run of the Enhanced engine over a kinematic body and a second body, *)
(* the lower one standing on the floor line or reaching below it.          *)

\* the engine after addBodiesFromSelection and addJoint: the lower layer
\* has its bottom edge on the floor (y = 950) or 30 px below it (y = 980)
KinematicInit ==
    /\ settings \in { [s EXCEPT !.duration = 10] : s \in EnhSettingsChoices }
    /\ \E la \in StaticLayersA, y \in { 950, 980 }, j \in StaticJointInputs,
          tp \in { <<"kinematic", "dynamic">>, <<"dynamic", "kinematic">>,
                   <<"kinematic", "kinematic">> } :
          /\ heap = << Enh_createBody(la, settings, tp[1]),
                       Enh_createBody([EnhLayerB EXCEPT !.position = <<400 * S, y * S>>],
                                      settings, tp[2]) >>
          /\ joints = IF j = <<>> THEN <<>>
                      ELSE << Enh_createJoint(1, j[1], j[2], heap[j[1]], heap[j[2]],
                                              j[3], EnhNoOptions) >>
    /\ bodies = <<1, 2>>
    /\ simulationData = <<>>
    /\ contactData = <<>>
    /\ isSimulating = FALSE
    /\ pc = "idle"
    /\ frame = 0
    /\ bi = 0
    /\ ret = TRUE
    /\ lastOp = "addJoint"
    /\ lastArgs = <<>>
    /\ pre = [bodies |-> 2, joints |-> 0, isSimulating |-> FALSE, hasData |-> FALSE]
    /\ ops = 2
    /\ rng = NoRng
    /\ clock = 0
    /\ history = EnhNoHistory
    /\ controls = NoControls
    /\ tasks = NoTasks

KinematicSpec == KinematicInit /\ [][StaticNext]_vars

\* C21: in every frame of a run a kinematic body that was registered with
\* zero velocity has the position and velocity it was registered with,
\* also when it stands on or below the floor line.
C21_KinematicKeepsPose ==
    history.runs > 0 =>
       \A i \in DOMAIN bodies :
          heap[bodies[i]].type = "kinematic" =>
             /\ heap[bodies[i]].px = registered(i).px
             /\ heap[bodies[i]].py = registered(i).py
             /\ heap[bodies[i]].vx = registered(i).vx
             /\ heap[bodies[i]].vy = registered(i).vy

---------------------------------------------------------------------------
(* Physics.resolveCollision of the Enhanced engine on two overlapping      *)
(* bodies of any types.  A static body has the velocity 0 it was created   *)
(* with; a dynamic or kinematic body may be moving.                        *)

EnhPairInit ==
    /\ settings = DEFAULT_SETTINGS
    /\ \E lb \in PairLayersB, vA \in PairVelocitiesA, vB \in PairVelocitiesB,
          tA \in { "dynamic", "static", "kinematic" },
          tB \in { "dynamic", "static", "kinematic" } :
          heap = << [Enh_createBody(PairLayerA, settings, tA) EXCEPT
                        !.vx = IF tA = "static" THEN 0 ELSE vA[1],
                        !.vy = IF tA = "static" THEN 0 ELSE vA[2]],
                    [Enh_createBody(lb, settings, tB) EXCEPT
                        !.vx = IF tB = "static" THEN 0 ELSE vB[1],
                        !.vy = IF tB = "static" THEN 0 ELSE vB[2]] >>
    /\ bodies = <<1, 2>>
    /\ joints = <<>>
    /\ simulationData = <<>>
    /\ isSimulating = FALSE
    /\ pc = "idle"
    /\ frame = 0
    /\ bi = 0
    /\ ret = FALSE
    /\ lastOp = "init"
    /\ lastArgs = <<>>
    /\ pre = <<>>
    /\ ops = 0
    /\ rng = NoRng
    /\ clock = 0
    /\ contactData = <<>>
    /\ history = NoHistory
    /\ controls = NoControls
    /\ tasks = NoTasks

\* a call of Physics.resolveCollision(bodyA, bodyB, settings); pre keeps
\* the pair as it was before the call
Enh_resolveCollisionCall ==
    /\ lastOp = "init"
    /\ lastOp' = "resolveCollision"
    /\ pre' = heap
    /\ \E r \in { Enh_resolveCollision(heap[1], heap[2], clock) } : heap' = <<r[1], r[2]>>
    /\ ops' = ops + 1
    /\ UNCHANGED <<settings, bodies, joints, simulationData, isSimulating, pc, frame,
                   bi, ret, lastArgs>>
    /\ UNCHANGED evars
    /\ UNCHANGED uvars

EnhPairNext == Enh_resolveCollisionCall

EnhPairSpec == EnhPairInit /\ [][EnhPairNext]_vars

\* the collision normal of a pair, in 1/C: from the first body to the second
pairNormal(pair) ==
    With(Hypot(pair[2].px - pair[1].px, pair[2].py - pair[1].py), LAMBDA distance :
         << RoundDiv((pair[2].px - pair[1].px) * C, distance),
            RoundDiv((pair[2].py - pair[1].py) * C, distance) >>)

\* the velocity of a body along a normal
alongNormal(body, normal) == MulDiv(body.vx, normal[1], C) + MulDiv(body.vy, normal[2], C)

\* the overlap depths of a pair along x and y
overlapOf(pair) ==
    << RoundDiv(pair[1].width + pair[2].width, 2) - Abs(pair[2].px - pair[1].px),
       RoundDiv(pair[1].height + pair[2].height, 2) - Abs(pair[2].py - pair[1].py) >>

\* the call was made on two boxes that overlap
overlapped ==
    /\ lastOp = "resolveCollision"
    /\ overlapOf(pre)[1] > 0
    /\ overlapOf(pre)[2] > 0

\* C22: when a dynamic body runs into a static body, its velocity along
\* the collision normal after the contact is -e times the one before,
\* e the smaller of the two restitutions (within 1 px/s of rounding).
C22_StaticHasNoInverseMass ==
    \A d \in 1..2 :
       (/\ overlapped
        /\ pre[d].type = "dynamic"
        /\ pre[3 - d].type = "static"
        /\ alongNormal(pre[2], pairNormal(pre)) - alongNormal(pre[1], pairNormal(pre)) < 0)
       => Abs(alongNormal(heap[d], pairNormal(pre))
                + MulDiv(alongNormal(pre[d], pairNormal(pre)),
                         Min(pre[1].restitution, pre[2].restitution), C)) <= S

\* C23: on contact two dynamic bodies are each displaced by half of the
\* overlap along every axis on which their centers differ, in opposite
\* directions; when exactly one body is dynamic the other one is not
\* displaced and the boxes no longer overlap afterwards.
C23_PositionalCorrection ==
    overlapped =>
       /\ (pre[1].type = "dynamic" /\ pre[2].type = "dynamic") =>
             /\ pre[1].px # pre[2].px =>
                   Abs(heap[1].px - pre[1].px) = RoundDiv(overlapOf(pre)[1], 2)
             /\ pre[1].py # pre[2].py =>
                   Abs(heap[1].py - pre[1].py) = RoundDiv(overlapOf(pre)[2], 2)
             /\ heap[2].px - pre[2].px = -(heap[1].px - pre[1].px)
             /\ heap[2].py - pre[2].py = -(heap[1].py - pre[1].py)
       /\ \A d \in 1..2 :
             (pre[d].type = "dynamic" /\ pre[3 - d].type # "dynamic") =>
                /\ heap[3 - d].px = pre[3 - d].px
                /\ heap[3 - d].py = pre[3 - d].py
                /\ \/ overlapOf(heap)[1] <= 0
                   \/ overlapOf(heap)[2] <= 0

\* C24: no number of a body and no stored position is ever NaN or
\* infinite in the Final engine, also for bodies with coincident centers.
C24_NoUndefinedNumbers ==
    /\ \A k \in DOMAIN heap : heap[k].nan = {}
    /\ \A i \in DOMAIN simulationData :
          \A f \in DOMAIN simulationData[i] : simulationData[i][f].nan = {}

\* C25: what magnetism adds to the acceleration of a body in a frame is
\* what it would add from the positions the bodies had when the frame
\* began.
C25_FieldFromPreviousFrame ==
    (/\ lastOp = "simulateFrame"
     /\ pre[bodies[lastArgs[1]]].type = "dynamic"
     /\ "magnetism" \in DOMAIN pre[bodies[lastArgs[1]]])
    => Fin_magnetismFrom(pre[bodies[lastArgs[1]]], pre, bodies, 1)
         = Fin_magnetismFrom(pre[bodies[lastArgs[1]]], history.start, bodies, 1)

---------------------------------------------------------------------------
(* Joints of every kind created through MiniNewton.createJoint of the      *)
(* modular engine, with and without explicit options.                      *)

\* the value an explicit targetDistance or restLength option carries
explicitLength == 123 * S

CreateJointNext ==
    \/ /\ lastOp = "init"
       /\ \E sel \in { <<LayerX, LayerY>>, <<LayerY, LayerX>>, <<LayerX, LayerZ>> } :
             addBodiesFromSelection(TRUE, sel)
       /\ UNCHANGED uvars
    \/ /\ lastOp \in { "addBodiesFromSelection", "createJoint" }
       /\ Len(joints) < 2
       /\ \E a \in 0..1, type \in { "distance", "spring", "pivot", "weld" },
             options \in { NoOptions,
                           [ targetDistance |-> explicitLength ],
                           [ targetDistance |-> 0, restLength |-> explicitLength ] } :
             createJoint(a, 1 - a, type, options)
       /\ UNCHANGED uvars

CreateJointSpec == MInit /\ [][CreateJointNext]_vars

\* the joint the last call created
createdJoint == joints[Len(joints)]

\* C26: the target distance a distance or weld joint is solved with, and
\* the rest length a spring joint is solved with, is the distance between
\* the two bodies when the joint was created, or the value an option
\* supplied.
C26_LengthFromCreation ==
    (lastOp = "createJoint" /\ ret = TRUE) =>
       With(calculateDistance(heap[createdJoint.bodyA], heap[createdJoint.bodyB]),
            LAMBDA d :
               /\ createdJoint.type \in { "distance", "weld" } =>
                     createdJoint.targetDistance \in { d, explicitLength }
               /\ createdJoint.type = "spring" =>
                     createdJoint.restLength \in { d, explicitLength })

---------------------------------------------------------------------------
(* The panel and the orchestrator together                                 *)

\* C27: in every state of the panel the Run Simulation button is enabled
\* only if a body is registered, and the Bake button only if
\* getStatus().hasData is true.
C27_ButtonsFollowEngine ==
    /\ controls.simulateBtn => Len(bodies) >= 1
    /\ controls.bakeBtn => getStatus.hasData

\* C28: whenever getStatus().hasData is true, simulationData has one
\* buffer for each body of the current collection, and every sample of
\* buffer i was taken from the body now at index i.
C28_BuffersMatchBodies ==
    getStatus.hasData =>
       /\ Len(simulationData) = Len(bodies)
       /\ \A i \in DOMAIN simulationData :
             \A f \in DOMAIN simulationData[i] :
                i \in DOMAIN bodies /\ simulationData[i][f].body = bodies[i]

\* C29: when resolveBodyCollisions has returned, no body that is still
\* asleep overlaps a body that is awake.
C29_WakePropagates ==
    (lastOp = "resolveBodyCollisions" /\ pc = "idle") =>
       \A i, j \in DOMAIN bodies :
          (heap[bodies[i]].isSleeping /\ ~heap[bodies[j]].isSleeping)
             => ~checkBodyCollision(heap[bodies[i]], heap[bodies[j]])

\* the layer a body was registered from
layerNamed(name) == CHOOSE l \in { LayerX, LayerY, LayerZ } : l.name = name

\* C30: every run of simulate() starts from the state the bodies were
\* registered with: the sample of frame 0 of a body is the one its first
\* integration step gives from the body as createBody made it, in the
\* first run and in every later one.
C30_RunStartsFromRegistered ==
    \A i \in DOMAIN simulationData :
       (/\ i \in DOMAIN bodies
        /\ 0 \in DOMAIN simulationData[i]
        /\ simulationData[i][0].body = bodies[i])
       => \E rnd \in RandomValues :
             With(integrateBody(createBody(layerNamed(heap[bodies[i]].layer), settings),
                                settings, rnd),
                  LAMBDA b : simulationData[i][0].position = <<b.px, b.py>>)

=============================================================================
